---- MODULE Spec2Model ----
(***************************************************************************)
(* A model of sekiei's content-graph resolution and annotated rendering:   *)
(* the File Index (src/paths.rs init_file_cache), the path resolver and    *)
(* reference rewriter (src/paths.rs), and the code-block part of the       *)
(* markdown renderer's event loop (src/markdown.rs markdown_to_html).      *)
(*                                                                         *)
(* Text is a sequence of characters; a character is a one-character        *)
(* string.  Paths are texts, with Rust's std::path operations modelled on  *)
(* their '/'-separated components.                                         *)
(***************************************************************************)
EXTENDS Integers, Sequences, FiniteSets, TLC

VARIABLES
    tree,          \* the content tree, as the sequence of entries WalkDir yields
    FILE_CACHE,    \* paths.rs:13  RwLock<Option<HashMap<String, Vec<PathBuf>>>>
    walks,         \* number of tree walks init_file_cache has performed
    call,          \* the last rewriting call: its inputs and every pass's output
    ncalls,        \* number of process_paths calls made so far
    stream,        \* markdown.rs: the parser's event stream being rendered
    pos,           \* index of the next event of the stream
    rs,            \* markdown.rs:189-197 the renderer's local state
    fm,            \* markdown.rs:149 a call of extract_frontmatter: content, result
    site,          \* build.rs:400 the state of one run of build()
    lock,          \* paths.rs:13 the RwLock around FILE_CACHE: its writer and readers
    th,            \* the threads calling into paths.rs: position and locals of each
    host           \* main.rs, serve.rs: the dist directory and the commands run on it

vars == <<tree, FILE_CACHE, walks, call, ncalls, stream, pos, rs, fm, site, lock, th, host>>

pathVars == <<tree, FILE_CACHE, walks, call, ncalls>>
mdVars == <<stream, pos, rs>>
siteVars == <<fm, site>>
procVars == <<lock, th, host>>

-----------------------------------------------------------------------------
(* Bounds *)

\* process_paths calls per run of the rewriting specification
MaxCalls == 2

-----------------------------------------------------------------------------
(* Text helpers: Rust str operations on sequences of characters *)

None == <<"<none>">>

IsPrefix(p, s) == Len(p) <= Len(s) /\ SubSeq(s, 1, Len(p)) = p

IsSuffix(p, s) == Len(p) <= Len(s) /\ SubSeq(s, Len(s) - Len(p) + 1, Len(s)) = p

\* str::starts_with at offset i (1-based): s[i..] starts with p
MatchAt(s, i, p) == i + Len(p) - 1 <= Len(s) /\ SubSeq(s, i, i + Len(p) - 1) = p

ContainsChar(s, c) == \E i \in 1..Len(s) : s[i] = c

Drop(s, n) == SubSeq(s, n + 1, Len(s))

\* str::find(pat) from offset i: the least j >= i where pat occurs, or 0
FindFrom(s, i, p) ==
    LET Least(hits) == IF hits = {} THEN 0 ELSE CHOOSE j \in hits : \A k \in hits : j <= k
    IN Least({j \in i..Len(s) : MatchAt(s, j, p)})

\* the end (exclusive) of the maximal run of characters outside `stop` from i
RunEnd(s, i, stop) ==
    LET Least(ends) ==
            IF ends = {} THEN Len(s) + 1 ELSE CHOOSE j \in ends : \A k \in ends : j <= k
    IN Least({j \in i..Len(s) : s[j] \in stop})

\* str::split(c): the segments between the occurrences of c ("" gives [""])
RECURSIVE SplitOn(_, _)
SplitOn(s, c) ==
    LET Cut(j) == IF j > Len(s) THEN <<s>>
                  ELSE <<SubSeq(s, 1, j - 1)>> \o SplitOn(Drop(s, j), c)
    IN Cut(RunEnd(s, 1, {c}))

RECURSIVE JoinWith(_, _)
JoinWith(segs, c) ==
    IF Len(segs) = 0 THEN <<>>
    ELSE IF Len(segs) = 1 THEN segs[1]
    ELSE segs[1] \o <<c>> \o JoinWith(Tail(segs), c)

RECURSIVE Concat(_)
Concat(ss) == IF Len(ss) = 0 THEN <<>> ELSE ss[1] \o Concat(Tail(ss))

-----------------------------------------------------------------------------
(* Characters *)

Lower == {"a", "b", "c", "d", "e", "f", "g", "h", "i", "j", "k", "l", "m",
          "n", "o", "p", "q", "r", "s", "t", "u", "v", "w", "x", "y", "z"}
Digits == {"0", "1", "2", "3", "4", "5", "6", "7", "8", "9"}
Upper == {"A", "D", "R"}

\* Characters beyond ASCII are written by their code point: U+00E9 (e with
\* acute accent, a letter) and U+1F600 (an emoji, outside the basic plane)
C_e_acute == "U+00E9"
C_emoji == "U+1F600"

\* char::is_alphanumeric on the characters the model uses: the Unicode
\* Alphabetic and Numeric properties, not the ASCII classes
is_alphanumeric(c) == c \in Lower \cup Digits \cup Upper \cup {C_e_acute}

\* `c as u32` for the characters of the model that are not alphanumeric
CodePoint(c) ==
    CASE c = " " -> 32
      [] c = "!" -> 33
      [] c = "\"" -> 34
      [] c = "&" -> 38
      [] c = "'" -> 39
      [] c = "(" -> 40
      [] c = ")" -> 41
      [] c = "," -> 44
      [] c = "-" -> 45
      [] c = "." -> 46
      [] c = "/" -> 47
      [] c = ":" -> 58
      [] c = "<" -> 60
      [] c = "=" -> 61
      [] c = ">" -> 62
      [] c = "[" -> 91
      [] c = "\\" -> 92
      [] c = "]" -> 93
      [] c = "_" -> 95
      [] c = "{" -> 123
      [] c = "|" -> 124
      [] c = "}" -> 125
      [] c = C_e_acute -> 233
      [] c = C_emoji -> 128512
      [] OTHER -> 63

HexDigit(n) ==
    <<"0", "1", "2", "3", "4", "5", "6", "7", "8", "9", "a", "b", "c", "d", "e", "f">>[n + 1]

RECURSIVE ToHex(_)
ToHex(n) == IF n < 16 THEN <<HexDigit(n)>> ELSE ToHex(n \div 16) \o <<HexDigit(n % 16)>>

RECURSIVE PadLeft(_, _, _)
PadLeft(s, w, c) == IF Len(s) >= w THEN s ELSE PadLeft(<<c>> \o s, w, c)

\* format!("{:04x}", n): lower-case hexadecimal, zero-padded to at least 4 digits
Hex04(n) == PadLeft(ToHex(n), 4, "0")

-----------------------------------------------------------------------------
(* std::path on '/'-separated relative paths without "." or empty components *)

S_content == <<"c", "o", "n", "t", "e", "n", "t">>
S_md == <<".", "m", "d">>
S_static == <<"/", "s", "t", "a", "t", "i", "c", "/">>

Components(p) == IF p = <<>> THEN <<>> ELSE SplitOn(p, "/")

\* Path::parent: the path without its final component; None for the empty path
PathParent(p) ==
    IF p = <<>> THEN None
    ELSE LET Front(cs) == JoinWith(SubSeq(cs, 1, Len(cs) - 1), "/") IN Front(Components(p))

\* Path::strip_prefix: None (Err) unless base's components start p's
StripPrefix(p, base) ==
    LET Strip(cs, bs) ==
            IF Len(bs) <= Len(cs) /\ SubSeq(cs, 1, Len(bs)) = bs
            THEN JoinWith(SubSeq(cs, Len(bs) + 1, Len(cs)), "/")
            ELSE None
    IN Strip(Components(p), Components(base))

\* Path::file_name
FileName(p) ==
    LET Last(cs) == IF cs = <<>> THEN None ELSE cs[Len(cs)] IN Last(Components(p))

LastDot(name) ==
    LET Greatest(dots) ==
            IF dots = {} THEN 0 ELSE CHOOSE i \in dots : \A k \in dots : k <= i
    IN Greatest({i \in 1..Len(name) : name[i] = "."})

\* Path::file_stem of a file name: the part before the last '.', the whole
\* name when it has no '.' or only a leading one
FileStem(name) ==
    LET Stem(dot) == IF name = <<".", ".">> \/ dot <= 1 THEN name
                     ELSE SubSeq(name, 1, dot - 1)
    IN Stem(LastDot(name))

\* Path::extension of a file name (None when there is none)
Extension(name) ==
    LET After(dot) == IF name = <<".", ".">> \/ dot <= 1 THEN None ELSE Drop(name, dot)
    IN After(LastDot(name))

\* Path::with_extension(""): the path cut at the end of its file stem
WithoutExtension(p) ==
    LET Cut(cs) ==
            IF cs = <<>> THEN p
            ELSE JoinWith(SubSeq(cs, 1, Len(cs) - 1) \o <<FileStem(cs[Len(cs)])>>, "/")
    IN Cut(Components(p))

\* PathBuf::push of a segment: an absolute segment replaces the path, otherwise
\* it is appended after a separator (unless the path is empty or ends in one)
PathPush(p, seg) ==
    IF seg # <<>> /\ seg[1] = "/" THEN seg
    ELSE IF p # <<>> /\ p[Len(p)] # "/" THEN p \o <<"/">> \o seg
    ELSE p \o seg

RECURSIVE PushAll(_, _)
PushAll(p, segs) == IF segs = <<>> THEN p ELSE PushAll(PathPush(p, segs[1]), Tail(segs))

-----------------------------------------------------------------------------
(* utils.rs *)

RECURSIVE ReplaceChar(_, _, _)
ReplaceChar(s, c, r) ==
    IF s = <<>> THEN <<>>
    ELSE (IF s[1] = c THEN r ELSE <<s[1]>>) \o ReplaceChar(Tail(s), c, r)

SanitizeChar(c) ==
    IF is_alphanumeric(c) \/ c = "." \/ c = "-" \/ c = "_" THEN <<c>>
    ELSE <<"-", "u">> \o Hex04(CodePoint(c))

RECURSIVE SanitizeChars(_)
SanitizeChars(p) == IF p = <<>> THEN <<>> ELSE SanitizeChar(p[1]) \o SanitizeChars(Tail(p))

sanitize_filename(path) ==
    ReplaceChar(SanitizeChars(ReplaceChar(ReplaceChar(path, "/", <<"-">>), "\\", <<"-">>)),
                "/", <<"-">>)

-----------------------------------------------------------------------------
(* The content tree: what WalkDir::new("content") yields, in its order *)

Rel(segs) == JoinWith(segs, "/")
InContent(rel) == IF rel = <<>> THEN S_content ELSE S_content \o <<"/">> \o rel
FileEntry(segs) == [path |-> InContent(Rel(segs)), is_file |-> TRUE]
DirEntry(segs) == [path |-> InContent(Rel(segs)), is_file |-> FALSE]

N_a == <<"a">>
N_b == <<"b">>
N_h == <<".", "h">>
N_n == <<"n">>
N_n_md == <<"n", ".", "m", "d">>
N_m_md == <<"m", ".", "m", "d">>
N_k_md == <<".", "k", ".", "m", "d">>
N_index_md == <<"i", "n", "d", "e", "x", ".", "m", "d">>
N_p_png == <<"p", ".", "p", "n", "g">>
N_q_png == <<"q", ".", "p", "n", "g">>
N_rs_png == <<"r", " ", "s", ".", "p", "n", "g">>

TreeA ==
    << DirEntry(<<>>), FileEntry(<<N_index_md>>), DirEntry(<<N_a>>),
       FileEntry(<<N_a, N_n_md>>), FileEntry(<<N_a, N_p_png>>),
       DirEntry(<<N_a, N_b>>), FileEntry(<<N_a, N_b, N_m_md>>),
       FileEntry(<<N_a, N_b, N_p_png>>), FileEntry(<<N_a, N_b, N_q_png>>),
       FileEntry(<<N_a, N_rs_png>>) >>

TreeB ==
    << DirEntry(<<>>), FileEntry(<<N_n_md>>), DirEntry(<<N_a>>),
       FileEntry(<<N_a, N_n>>), FileEntry(<<N_a, N_index_md>>),
       FileEntry(<<N_a, N_q_png>>) >>

TreeC ==
    << DirEntry(<<>>), DirEntry(<<N_a>>), FileEntry(<<N_a, N_n>>),
       FileEntry(<<N_a, N_index_md>>), FileEntry(<<N_a, N_q_png>>),
       FileEntry(<<N_n_md>>) >>

TreeD ==
    << DirEntry(<<>>), DirEntry(<<N_h>>), FileEntry(<<N_h, N_n_md>>),
       DirEntry(<<N_b>>), FileEntry(<<N_b, N_n_md>>), FileEntry(<<N_b, N_p_png>>),
       DirEntry(<<N_a>>), FileEntry(<<N_a, N_n_md>>), FileEntry(<<N_a, N_k_md>>) >>

TreeE ==
    << DirEntry(<<>>), DirEntry(<<N_a>>), FileEntry(<<N_a, N_p_png>>),
       DirEntry(<<N_b>>), FileEntry(<<N_b, N_p_png>>), FileEntry(<<N_b, N_m_md>>),
       FileEntry(<<N_b, N_q_png>>), FileEntry(<<N_index_md>>) >>

Trees == {TreeA, TreeB, TreeC, TreeD, TreeE}

-----------------------------------------------------------------------------
(* paths.rs: the File Index *)

EmptyMap == [k \in {} |-> <<>>]

\* inserting at the front of the Vec instead of pushing at its end
PushEntry_Front(map, k, v) ==
    IF k \in DOMAIN map THEN [map EXCEPT ![k] = <<v>> \o @]
    ELSE [x \in DOMAIN map \cup {k} |-> IF x = k THEN <<v>> ELSE map[x]]

\* HashMap::entry(k).or_insert_with(Vec::new).push(v)
PushEntry(map, k, v) ==
    IF k \in DOMAIN map THEN [map EXCEPT ![k] = Append(@, v)]
    ELSE [x \in DOMAIN map \cup {k} |-> IF x = k THEN <<v>> ELSE map[x]]

\* indexing a file under its name only
IndexEntry_NameOnly(map, entry) ==
    IF ~entry.is_file THEN map ELSE PushEntry(map, FileName(entry.path), entry.path)

\* the body of init_file_cache's loop for one entry of the walk
IndexEntry(map, entry) ==
    IF ~entry.is_file THEN map
    ELSE LET Stemmed(filename, m1) ==
                 IF IsSuffix(S_md, filename)
                 THEN PushEntry(m1, FileStem(filename), entry.path)
                 ELSE m1
             Named(filename) == Stemmed(filename, PushEntry(map, filename, entry.path))
         IN Named(FileName(entry.path))

RECURSIVE WalkIndex(_, _)
WalkIndex(map, entries) ==
    IF entries = <<>> THEN map
    ELSE WalkIndex(IndexEntry(map, entries[1]), Tail(entries))

CacheNone == [some |-> FALSE, file_map |-> EmptyMap]
CacheSome(m) == [some |-> TRUE, file_map |-> m]

\* building the index on every call
init_file_cache_result_Rebuild(cache, t) == CacheSome(WalkIndex(EmptyMap, t))

\* init_file_cache: under the write lock, build the index if it is absent
init_file_cache_result(cache, t) ==
    IF ~cache.some THEN CacheSome(WalkIndex(EmptyMap, t)) ELSE cache

-----------------------------------------------------------------------------
(* paths.rs: the path resolver *)

S_dotslash == <<".", "/">>
S_dotdotslash == <<".", ".", "/">>

OrEmpty(p) == IF p = None THEN <<>> ELSE p

resolve_path(path, current_path) ==
    LET ParentOrSelf(dir, parent) == IF parent # None THEN parent ELSE dir
        Start(current_dir, first) ==
            IF first = <<".">> THEN current_dir
            ELSE IF first = <<".", ".">>
                 THEN ParentOrSelf(current_dir, PathParent(current_dir))
                 ELSE PathPush(current_dir, first)
        RelativePath(current_dir, path_segments) ==
            IF IsPrefix(S_dotslash, path) \/ IsPrefix(S_dotdotslash, path)
            THEN PushAll(Start(current_dir, path_segments[1]), Tail(path_segments))
            ELSE path
    IN S_static \o sanitize_filename(
           RelativePath(OrEmpty(StripPrefix(OrEmpty(PathParent(current_path)), S_content)),
                        SplitOn(path, "/")))

\* without the removal of the ".md" suffix
get_internal_link_path_KeepsSuffix(path) ==
    IF path = <<"i", "n", "d", "e", "x">> THEN <<"/">> ELSE <<"/">> \o path

get_internal_link_path(path) ==
    LET Rooted(clean_path) ==
            IF clean_path = <<"i", "n", "d", "e", "x">> THEN <<"/">> ELSE <<"/">> \o clean_path
    IN Rooted(IF IsSuffix(S_md, path) THEN SubSeq(path, 1, Len(path) - 3) ELSE path)

\* without the strip_prefix("content")
AssetPathOf_KeepsPrefix(p) == S_static \o sanitize_filename(p)

AssetPathOf(p) == S_static \o sanitize_filename(OrEmpty(StripPrefix(p, S_content)))

\* falling back to the referencing document's directory for an unmatched name
find_unique_image_SameDirectory(cache, image_name, current_path) ==
    IF ContainsChar(image_name, "/") THEN resolve_path(image_name, current_path)
    ELSE IF cache.some /\ image_name \in DOMAIN cache.file_map
         THEN AssetPathOf(cache.file_map[image_name][1])
         ELSE resolve_path(S_dotslash \o image_name, current_path)

find_unique_image(cache, image_name, current_path) ==
    IF ContainsChar(image_name, "/") THEN resolve_path(image_name, current_path)
    ELSE IF cache.some /\ image_name \in DOMAIN cache.file_map
         THEN LET Chosen(matches) ==
                      IF Len(matches) = 0 THEN resolve_path(image_name, current_path)
                      ELSE AssetPathOf(matches[1])
              IN Chosen(cache.file_map[image_name])
         ELSE resolve_path(image_name, current_path)

\* matches.iter().find(|p| p ends with ".md").unwrap_or(&matches[0])
FirstDocOrFirst(matches) ==
    LET Found(docs) ==
            IF docs = {} THEN matches[1]
            ELSE matches[CHOOSE i \in docs : \A k \in docs : i <= k]
    IN Found({i \in 1..Len(matches) : IsSuffix(S_md, matches[i])})

DocumentPathOf(match_path) ==
    LET UnwrapOr(stripped) == IF stripped = None THEN match_path ELSE stripped
        Rooted(clean_path) ==
            IF clean_path = <<"i", "n", "d", "e", "x">> THEN <<"/">> ELSE <<"/">> \o clean_path
    IN Rooted(ReplaceChar(WithoutExtension(UnwrapOr(StripPrefix(match_path, S_content))),
                          "\\", <<"/">>))

find_unique_internal_link(cache, link_name) ==
    IF cache.some /\ link_name \in DOMAIN cache.file_map
    THEN LET Chosen(matches) ==
                 IF Len(matches) = 0 THEN get_internal_link_path(link_name)
                 ELSE DocumentPathOf(FirstDocOrFirst(matches))
         IN Chosen(cache.file_map[link_name])
    ELSE get_internal_link_path(link_name)

-----------------------------------------------------------------------------
(* paths.rs: the four regular expressions, matched as the regex crate does   *)
(* (leftmost match, greedy classes, lazy `.*?`), and Regex::replace_all      *)

S_http == <<"h", "t", "t", "p", ":", "/", "/">>
S_https == <<"h", "t", "t", "p", "s", ":", "/", "/">>
S_wiki == <<"w", "i", "k", "i", ":">>
S_wikipedia ==
    <<"h", "t", "t", "p", "s", ":", "/", "/", "e", "n", ".", "w", "i", "k", "i", "p", "e", "d",
      "i", "a", ".", "o", "r", "g", "/", "w", "i", "k", "i", "/">>

NoMatch == [found |-> FALSE, start |-> 0, end |-> 0, g1 |-> <<>>, g2 |-> None]

\* `open` \[\[ ([^|\]]+) (?: \| ([^\]]*) )? \]\]  anchored at i
\* (ALT_IMAGE_REGEX with open = "![[", LINK_REGEX with open = "[[")
BracketMatchAt(s, i, open) ==
    LET Groups(j, e, e2) ==
            IF ~MatchAt(s, i, open) \/ e = j THEN NoMatch
            ELSE IF MatchAt(s, e, <<"|">>) /\ MatchAt(s, e2, <<"]", "]">>)
                 THEN [found |-> TRUE, start |-> i, end |-> e2 + 2,
                       g1 |-> SubSeq(s, j, e - 1), g2 |-> SubSeq(s, e + 1, e2 - 1)]
            ELSE IF MatchAt(s, e, <<"]", "]">>)
                 THEN [found |-> TRUE, start |-> i, end |-> e + 2,
                       g1 |-> SubSeq(s, j, e - 1), g2 |-> None]
            ELSE NoMatch
        Name(j, e) == Groups(j, e, RunEnd(s, e + 1, {"]"}))
        After(j) == Name(j, RunEnd(s, j, {"|", "]"}))
    IN After(i + Len(open))

\* `open` (.*?) `mid` ([^)]+) \)  anchored at i
\* (IMAGE_REGEX with open = "![", mid = "]("; WIKI_LINK_REGEX with "[", "](wiki:")
ParenMatchAt(s, i, open, mid) ==
    LET j == i + Len(open)
        Closes(k, r) == MatchAt(s, k, mid) /\ r > k + Len(mid) /\ r <= Len(s)
        Groups(k, r) ==
            [found |-> TRUE, start |-> i, end |-> r + 1,
             g1 |-> SubSeq(s, j, k - 1), g2 |-> SubSeq(s, k + Len(mid), r - 1)]
        At(k) == Groups(k, RunEnd(s, k + Len(mid), {")"}))
        Shortest(ks) ==
            IF ~MatchAt(s, i, open) \/ ks = {} THEN NoMatch
            ELSE At(CHOOSE x \in ks : \A y \in ks : x <= y)
    IN Shortest({k \in j..RunEnd(s, j, {"\n"}) : Closes(k, RunEnd(s, k + Len(mid), {")"}))})

RegexMatchAt(re, s, i) ==
    CASE re = "IMAGE_REGEX" -> ParenMatchAt(s, i, <<"!", "[">>, <<"]", "(">>)
      [] re = "ALT_IMAGE_REGEX" -> BracketMatchAt(s, i, <<"!", "[", "[">>)
      [] re = "LINK_REGEX" -> BracketMatchAt(s, i, <<"[", "[">>)
      [] re = "WIKI_LINK_REGEX" -> ParenMatchAt(s, i, <<"[">>, <<"]", "(">> \o S_wiki)

\* the leftmost match starting at or after `from`
FirstMatch(re, s, from) ==
    LET Try(i) == RegexMatchAt(re, s, i)
        Leftmost(at) ==
            IF at = {} THEN NoMatch ELSE Try(CHOOSE i \in at : \A k \in at : i <= k)
    IN Leftmost({i \in from..Len(s) : Try(i).found})

\* without the test for a leading '/'
IsAbsoluteRef_SchemeOnly(path) == IsPrefix(S_http, path) \/ IsPrefix(S_https, path)

IsAbsoluteRef(path) ==
    IsPrefix(S_http, path) \/ IsPrefix(S_https, path) \/ IsPrefix(<<"/">>, path)

ImageMarkup(alt_text, target) == <<"!", "[">> \o alt_text \o <<"]", "(">> \o target \o <<")">>
LinkMarkup(text, target) == <<"[">> \o text \o <<"]", "(">> \o target \o <<")">>

\* the closure of process_standard_images
StandardImageReplacement(m, current_path) ==
    IF ~IsAbsoluteRef(m.g2)
    THEN ImageMarkup(m.g1, resolve_path(m.g2, current_path))
    ELSE ImageMarkup(m.g1, m.g2)

\* the closure of process_alternative_images
AlternativeImageReplacement(cache, m, current_path) ==
    LET path == m.g1
        Target == IF ~IsAbsoluteRef(path) THEN find_unique_image(cache, path, current_path)
                  ELSE path
    IN ImageMarkup(IF m.g2 = None THEN <<>> ELSE m.g2, Target)

DefaultDisplayText(path) ==
    LET Last(segs) == segs[Len(segs)]
    IN Last(SplitOn(IF IsPrefix(S_wiki, path) THEN Drop(path, Len(S_wiki)) ELSE path, "/"))

InternalLinkTarget(cache, path) ==
    IF ~ContainsChar(path, "/") THEN find_unique_internal_link(cache, path)
    ELSE get_internal_link_path(path)

\* the closure of process_links
LinkReplacement(cache, m) ==
    LET path == m.g1
        Marked(display_text) ==
            IF IsPrefix(S_wiki, path)
            THEN LinkMarkup(S_wiki \o display_text, S_wikipedia \o Drop(path, Len(S_wiki)))
            ELSE IF ~IsAbsoluteRef(path)
                 THEN LinkMarkup(display_text, InternalLinkTarget(cache, path))
                 ELSE LinkMarkup(display_text, path)
    IN Marked(IF m.g2 = None THEN DefaultDisplayText(path) ELSE m.g2)

\* the closure of process_wiki_parenthetical_links
WikiParentheticalReplacement(m) == LinkMarkup(m.g1, S_wikipedia \o m.g2)

Replacement(re, cache, m, current_path) ==
    CASE re = "IMAGE_REGEX" -> StandardImageReplacement(m, current_path)
      [] re = "ALT_IMAGE_REGEX" -> AlternativeImageReplacement(cache, m, current_path)
      [] re = "LINK_REGEX" -> LinkReplacement(cache, m)
      [] re = "WIKI_LINK_REGEX" -> WikiParentheticalReplacement(m)

\* Regex::replace_all: every non-overlapping match, left to right, replaced
RECURSIVE ReplaceAll(_, _, _, _, _)
ReplaceAll(re, cache, s, from, current_path) ==
    LET Splice(m) ==
            IF ~m.found THEN SubSeq(s, from, Len(s))
            ELSE SubSeq(s, from, m.start - 1) \o Replacement(re, cache, m, current_path)
                 \o ReplaceAll(re, cache, s, m.end, current_path)
    IN Splice(FirstMatch(re, s, from))

process_standard_images(markdown, current_path) ==
    ReplaceAll("IMAGE_REGEX", CacheNone, markdown, 1, current_path)

process_alternative_images(cache, markdown, current_path) ==
    ReplaceAll("ALT_IMAGE_REGEX", cache, markdown, 1, current_path)

process_links(cache, markdown) ==
    ReplaceAll("LINK_REGEX", cache, markdown, 1, <<>>)

process_wiki_parenthetical_links(markdown) ==
    ReplaceAll("WIKI_LINK_REGEX", CacheNone, markdown, 1, <<>>)

process_paths_passes(cache, markdown, current_path) ==
    LET Fourth(std, alt, links) ==
            [std |-> std, alt |-> alt, links |-> links,
             out |-> process_wiki_parenthetical_links(links)]
        Third(std, alt) == Fourth(std, alt, process_links(cache, alt))
        Second(std) == Third(std, process_alternative_images(cache, std, current_path))
    IN Second(process_standard_images(markdown, current_path))

-----------------------------------------------------------------------------
(* build.rs / serve.rs: where a document's page is written and served *)

S_dist == <<"d", "i", "s", "t">>
S_index_html == <<"i", "n", "d", "e", "x", ".", "h", "t", "m", "l">>

\* is_not_hidden_dir as WalkDir's filter_entry, then the loop's own test of the
\* file name: an entry is visited unless an ancestor directory or it is hidden
IsHiddenName(name) == name # <<>> /\ name[1] = "."

BuildVisits(entry) ==
    LET cs == Components(OrEmpty(StripPrefix(entry.path, S_content)))
    IN /\ \A i \in 1..(Len(cs) - 1) : ~IsHiddenName(cs[i])
       /\ cs # <<>> => ~IsHiddenName(cs[Len(cs)])

IsBuildDocument(entry) ==
    entry.is_file /\ BuildVisits(entry) /\ Extension(FileName(entry.path)) = <<"m", "d">>

BuildDocuments(t) == {t[i].path : i \in {k \in 1..Len(t) : IsBuildDocument(t[k])}}

\* build(): the output file of the document at entry_path
DocumentOutputPath(entry_path) ==
    LET relative_path == StripPrefix(entry_path, S_content)
    IN IF relative_path = <<"i", "n", "d", "e", "x", ".", "m", "d">>
       THEN PathPush(S_dist, S_index_html)
       ELSE PathPush(PathPush(S_dist, WithoutExtension(relative_path)), S_index_html)

\* warp::fs::dir(dist): the URL path that serves a directory's index.html
ServedUrl(output_path) ==
    LET dir == OrEmpty(StripPrefix(OrEmpty(PathParent(output_path)), S_dist))
    IN <<"/">> \o dir

-----------------------------------------------------------------------------
(* The rewriting specification: a content tree, a pending reference, and the *)
(* calls of init_file_cache and process_paths that a build makes             *)

S_Ad == <<"A", " ", "d">>
S_z_png == <<"z", ".", "p", "n", "g">>
S_index == <<"i", "n", "d", "e", "x">>
Pre == <<"s", " ">>
Post == <<" ", ".">>

Up(n, rest) == IF n = 0 THEN rest ELSE IF n = 1 THEN S_dotdotslash \o rest
               ELSE IF n = 2 THEN S_dotdotslash \o S_dotdotslash \o rest
               ELSE S_dotdotslash \o S_dotdotslash \o S_dotdotslash \o rest

FixedRefs ==
    { N_q_png, N_p_png, N_n, N_n_md, <<"m">>, S_index, S_z_png, N_rs_png, <<"z">>,
      S_dotslash \o N_q_png, S_dotslash \o S_z_png, S_dotslash \o N_n,
      Up(1, N_q_png), Up(2, N_q_png), Up(3, N_q_png), Up(1, Rel(<<N_b, N_q_png>>)),
      Rel(<<N_a, N_b, N_q_png>>), Rel(<<N_a, <<"z">>>>),
      <<C_e_acute>> \o S_z_png, <<C_emoji>> \o S_z_png,
      S_http \o N_rs_png, S_https \o Rel(<<N_a, N_n_md>>),
      <<"/">> \o Rel(<<N_a, N_n_md>>), <<"/">> \o N_q_png }

\* the canonical document path of a document of the tree (paths.rs:208-217)
CanonicalPath(doc_path) == DocumentPathOf(doc_path)

DocumentRefs(t) ==
    UNION { { CanonicalPath(d),
              OrEmpty(StripPrefix(d, S_content)),
              WithoutExtension(OrEmpty(StripPrefix(d, S_content))) } : d \in BuildDocuments(t) }

Refs(t) == FixedRefs \cup DocumentRefs(t)

Kinds == {"image", "embed", "link"}
Alts == {None, S_Ad}

\* parenthetical wiki links [display](wiki:article): article names, and display
\* texts, one of which holds a parenthetical wiki link of its own
S_R == <<"R">>
S_nested == LinkMarkup(<<"d">>, S_wiki \o <<"a">>)
Articles == {S_R, Rel(<<N_a, S_R>>), <<"R", " ", "a">>}
Displays == {None, S_Ad, S_nested}

\* wiki-namespace references of [[...]] links
WikiRefs == {S_wiki \o S_R, S_wiki \o Rel(<<N_a, S_R>>)}

RefsOf(kind, t) ==
    IF kind = "paren" THEN Articles
    ELSE IF kind = "link" THEN Refs(t) \cup WikiRefs
    ELSE Refs(t)
AltsOf(kind) == IF kind = "paren" THEN Displays ELSE Alts

\* the markdown source of one reference
Markup(kind, ref, alt) ==
    LET pipe == IF alt = None THEN <<>> ELSE <<"|">> \o alt
    IN CASE kind = "image" -> ImageMarkup(OrEmpty(alt), ref)
         [] kind = "embed" -> <<"!", "[", "[">> \o ref \o pipe \o <<"]", "]">>
         [] kind = "link" -> <<"[", "[">> \o ref \o pipe \o <<"]", "]">>
         [] kind = "paren" -> LinkMarkup(OrEmpty(alt), S_wiki \o ref)

Body(kind, ref, alt) == Pre \o Markup(kind, ref, alt) \o Post

NoCall(kind, ref, alt) ==
    [done |-> FALSE, kind |-> kind, ref |-> ref, alt |-> alt, doc |-> <<>>,
     text |-> Body(kind, ref, alt), std |-> <<>>, embeds |-> <<>>, links |-> <<>>,
     out |-> <<>>, rewiki |-> <<>>]

IdleStream == <<>>
IdleRenderer == [idle |-> TRUE]
IdleFrontmatter == [idle |-> TRUE]
IdleBuild == [idle |-> TRUE]
\* writer is the number of the thread holding the write guard, 0 for none
FreeLock == [writer |-> 0, readers |-> {}]
NoThreads == <<>>
IdleHost == [idle |-> TRUE]
IdleProcesses == lock = FreeLock /\ th = NoThreads /\ host = IdleHost

InitPaths ==
    /\ tree \in Trees
    /\ FILE_CACHE = CacheNone
    /\ walks = 0
    /\ ncalls = 0
    /\ \E kind \in Kinds \cup {"paren"} :
           \E ref \in RefsOf(kind, tree), alt \in AltsOf(kind) : call = NoCall(kind, ref, alt)

Init ==
    /\ InitPaths
    /\ stream = IdleStream
    /\ pos = 0
    /\ rs = IdleRenderer
    /\ fm = IdleFrontmatter
    /\ site = IdleBuild
    /\ IdleProcesses

\* init_file_cache()
InitFileCache ==
    /\ FILE_CACHE' = init_file_cache_result(FILE_CACHE, tree)
    /\ walks' = IF FILE_CACHE.some THEN walks ELSE walks + 1
    /\ UNCHANGED <<tree, call, ncalls>>
    /\ UNCHANGED mdVars
    /\ UNCHANGED siteVars
    /\ UNCHANGED procVars

\* process_paths(markdown, current_path) for the pending reference, called for
\* a document of the tree by markdown_to_html, which then applies
\* process_wiki_parenthetical_links to the result once more (markdown.rs:173-174)
ProcessPaths(doc) ==
    /\ ncalls < MaxCalls
    /\ LET Returned(r) ==
               [call EXCEPT !.done = TRUE, !.doc = doc, !.std = r.std,
                            !.embeds = r.alt, !.links = r.links, !.out = r.out,
                            !.rewiki = process_wiki_parenthetical_links(r.out)]
           Called(cache) ==
               /\ FILE_CACHE' = cache
               /\ call' = Returned(process_paths_passes(cache, call.text, doc))
       IN Called(init_file_cache_result(FILE_CACHE, tree))
    /\ walks' = IF FILE_CACHE.some THEN walks ELSE walks + 1
    /\ ncalls' = ncalls + 1
    /\ UNCHANGED tree
    /\ UNCHANGED mdVars
    /\ UNCHANGED siteVars
    /\ UNCHANGED procVars

Next ==
    \/ InitFileCache
    \/ \E doc \in BuildDocuments(tree) : ProcessPaths(doc)

Spec == Init /\ [][Next]_vars

-----------------------------------------------------------------------------
(* The File Index over the life of the process: the content directory is
   changed from outside between the calls *)

CacheTrees == {TreeA, TreeB, TreeD}

InitCache ==
    /\ tree \in CacheTrees
    /\ FILE_CACHE = CacheNone
    /\ walks = 0
    /\ ncalls = 0
    /\ \E kind \in {"embed", "link"}, ref \in {N_n, N_p_png} : call = NoCall(kind, ref, None)
    /\ stream = IdleStream
    /\ pos = 0
    /\ rs = IdleRenderer
    /\ fm = IdleFrontmatter
    /\ site = IdleBuild
    /\ IdleProcesses

\* files are added to, removed from or moved within the content directory
ChangeTree ==
    /\ \E t \in CacheTrees \ {tree} : tree' = t
    /\ UNCHANGED <<FILE_CACHE, walks, call, ncalls>>
    /\ UNCHANGED mdVars
    /\ UNCHANGED siteVars
    /\ UNCHANGED procVars

NextCache ==
    \/ InitFileCache
    \/ \E doc \in BuildDocuments(tree) : ProcessPaths(doc)
    \/ ChangeTree

SpecCache == InitCache /\ [][NextCache]_vars

-----------------------------------------------------------------------------
(* markdown.rs: fence info strings *)

Whitespace == {" ", "\t", "\n"}

RECURSIVE TrimStart(_)
TrimStart(s) == IF s # <<>> /\ s[1] \in Whitespace THEN TrimStart(Tail(s)) ELSE s

RECURSIVE TrimEnd(_)
TrimEnd(s) ==
    IF s # <<>> /\ s[Len(s)] \in Whitespace THEN TrimEnd(SubSeq(s, 1, Len(s) - 1)) ELSE s

\* str::trim
Trim(s) == TrimEnd(TrimStart(s))

\* str::split_whitespace
RECURSIVE SplitWhitespace(_)
SplitWhitespace(s) ==
    LET t == TrimStart(s)
        e == RunEnd(t, 1, Whitespace)
    IN IF t = <<>> THEN <<>>
       ELSE <<SubSeq(t, 1, e - 1)>> \o SplitWhitespace(Drop(t, e - 1))

DigitValue(c) ==
    CASE c = "0" -> 0 [] c = "1" -> 1 [] c = "2" -> 2 [] c = "3" -> 3 [] c = "4" -> 4
      [] c = "5" -> 5 [] c = "6" -> 6 [] c = "7" -> 7 [] c = "8" -> 8 [] c = "9" -> 9

RECURSIVE DecimalValue(_)
DecimalValue(s) ==
    IF s = <<>> THEN 0 ELSE 10 * DecimalValue(SubSeq(s, 1, Len(s) - 1)) + DigitValue(s[Len(s)])

\* str::parse::<usize>: -1 stands for Err (the model's texts carry no sign
\* and no number beyond usize)
ParseUsize(s) ==
    IF s # <<>> /\ \A i \in 1..Len(s) : s[i] \in Digits THEN DecimalValue(s) ELSE -1

RECURSIVE ToDecimal(_)
ToDecimal(n) ==
    IF n < 10 THEN <<HexDigit(n)>> ELSE ToDecimal(n \div 10) \o <<HexDigit(n % 10)>>

\* one comma-separated part of a range list (the body of parse_ranges' loop)
RangePartLines(raw) ==
    LET part == Trim(raw)
        range == SplitOn(part, "-")
        start == ParseUsize(Trim(range[1]))
        end == ParseUsize(Trim(range[2]))
    IN IF ContainsChar(part, "-")
       THEN (IF Len(range) = 2 /\ start >= 0 /\ end >= 0 THEN start..end ELSE {})
       ELSE (IF ParseUsize(part) >= 0 THEN {ParseUsize(part)} ELSE {})

\* the closure parse_ranges
parse_ranges(range_str) ==
    LET parts == SplitOn(range_str, ",")
    IN UNION {RangePartLines(parts[i]) : i \in 1..Len(parts)}

\* `open` \{ ([^}]+) \}  anchored at i  (DEL_RE, ADD_RE, H_RE)
GroupMatchAt(s, i, open) ==
    LET j == i + Len(open) + 1
        e == RunEnd(s, j, {"}"})
    IN IF MatchAt(s, i, open \o <<"{">>) /\ e > j /\ e <= Len(s)
       THEN [found |-> TRUE, start |-> i, end |-> e + 1, g1 |-> SubSeq(s, j, e - 1), g2 |-> None]
       ELSE NoMatch

FirstGroupMatch(s, from, open) ==
    LET at == {i \in from..Len(s) : GroupMatchAt(s, i, open).found}
    IN IF at = {} THEN NoMatch
       ELSE GroupMatchAt(s, CHOOSE i \in at : \A k \in at : i <= k, open)

S_del_eq == <<"d", "e", "l", "=">>
S_add_eq == <<"a", "d", "d", "=">>
S_title_eq == <<"t", "i", "t", "l", "e", "=">>

\* the loop over H_RE.captures_iter: each match that does not itself start
\* with "del=" or "add=" replaces h_lines
RECURSIVE HighlightGroups(_, _, _)
HighlightGroups(s, from, h_lines) ==
    LET m == FirstGroupMatch(s, from, <<>>)
        full_match == SubSeq(s, m.start, m.end - 1)
    IN IF ~m.found THEN h_lines
       ELSE HighlightGroups(s, m.end,
                IF ~IsPrefix(S_del_eq, full_match) /\ ~IsPrefix(S_add_eq, full_match)
                THEN parse_ranges(m.g1) ELSE h_lines)

parse_highlighting_info(info_string) ==
    LET d == FirstGroupMatch(info_string, 1, S_del_eq)
        a == FirstGroupMatch(info_string, 1, S_add_eq)
    IN [del_lines |-> IF d.found THEN parse_ranges(d.g1) ELSE {},
        add_lines |-> IF a.found THEN parse_ranges(a.g1) ELSE {},
        h_lines |-> HighlightGroups(info_string, 1, {})]

\* the closure that turns the first "title=" part into the file name;
\* "<panic>" stands for the slice value[1..value.len() - 1] of a value that
\* is a single quote character
TitleValue(part) ==
    LET eq_pos == FindFrom(part, 1, <<"=">>) - 1
        value == Drop(part, eq_pos + 1)
        quoted(q) == IsPrefix(<<q>>, value) /\ IsSuffix(<<q>>, value)
    IN IF eq_pos < Len(part) - 1
       THEN (IF quoted("\"") \/ quoted("'")
             THEN (IF Len(value) < 2 THEN <<"<panic>">> ELSE SubSeq(value, 2, Len(value) - 1))
             ELSE value)
       ELSE None

extract_language_and_filename(info_string) ==
    LET parts == SplitWhitespace(info_string)
        titled == {i \in 1..Len(parts) : IsPrefix(S_title_eq, parts[i])}
    IN [language |-> IF parts # <<>> THEN parts[1] ELSE None,
        filename |-> IF titled = {} THEN None
                     ELSE TitleValue(parts[CHOOSE i \in titled : \A k \in titled : i <= k])]

ToLowerChar(c) == CASE c = "A" -> "a" [] c = "D" -> "d" [] c = "R" -> "r" [] OTHER -> c

to_lowercase(s) == [i \in 1..Len(s) |-> ToLowerChar(s[i])]

\* the keys of LANGUAGE_MAP
LANGUAGE_MAP ==
    { <<"r", "u", "s", "t">>, <<"r", "s">>, <<"j", "a", "v", "a", "s", "c", "r", "i", "p", "t">>,
      <<"j", "s">>, <<"t", "y", "p", "e", "s", "c", "r", "i", "p", "t">>, <<"t", "s">>,
      <<"p", "y", "t", "h", "o", "n">>, <<"p", "y">>, <<"c", "s", "s">>, <<"s", "c", "s", "s">>,
      <<"h", "t", "m", "l">>, <<"l", "u", "a">>, <<"j", "s", "x">>, <<"t", "s", "x">>,
      <<"z", "i", "g">>, <<"m", "l">>, <<"o", "c", "a", "m", "l">>, <<"j", "a", "v", "a">>,
      <<"c">>, <<"c", "p", "p">>, <<"c", "+", "+">>, <<"c", "#">>,
      <<"c", "s", "h", "a", "r", "p">>, <<"n", "i", "x">>, <<"g", "o">>,
      <<"g", "o", "l", "a", "n", "g">> }

get_inkjet_language(lang_str) == to_lowercase(lang_str) \in LANGUAGE_MAP

\* htmlescape::encode_minimal
EscapeChar(c) ==
    CASE c = "\"" -> <<"&", "q", "u", "o", "t", ";">>
      [] c = "&" -> <<"&", "a", "m", "p", ";">>
      [] c = "'" -> <<"&", "#", "x", "2", "7", ";">>
      [] c = "<" -> <<"&", "l", "t", ";">>
      [] c = ">" -> <<"&", "g", "t", ";">>
      [] OTHER -> <<c>>

RECURSIVE encode_minimal(_)
encode_minimal(s) == IF s = <<>> THEN <<>> ELSE EscapeChar(s[1]) \o encode_minimal(Tail(s))

\* what Highlighter::highlight_to_string returns on success: the escaped code
\* inside highlighting markup ("<hl>" and "</hl>" stand for inkjet's spans)
HighlightedHtml(code) == <<"<hl>">> \o encode_minimal(code) \o <<"</hl>">>

\* str::lines: the text between line feeds, without a final empty line
Lines(s) ==
    LET segs == SplitOn(s, "\n")
    IN IF segs[Len(segs)] = <<>> THEN SubSeq(segs, 1, Len(segs) - 1) ELSE segs

-----------------------------------------------------------------------------
(* markdown.rs: the event loop of markdown_to_html *)

\* pulldown_cmark events
Start(tag) == [type |-> "Start", tag |-> tag, level |-> 0, fenced |-> FALSE, text |-> <<>>, groups |-> <<>>]
End(tag) == [type |-> "End", tag |-> tag, level |-> 0, fenced |-> FALSE, text |-> <<>>, groups |-> <<>>]
Text(t) == [type |-> "Text", tag |-> "", level |-> 0, fenced |-> FALSE, text |-> t, groups |-> <<>>]
\* Event::Code: an inline code span
Code(t) == [Text(t) EXCEPT !.type = "Code"]
StartHeading(level) == [Start("Heading") EXCEPT !.level = level]
EndHeading(level) == [End("Heading") EXCEPT !.level = level]
\* Start(Tag::CodeBlock(kind)): `text` is the fence info string of a fenced
\* block; `groups` records how the info string was written (it is not read by
\* the renderer)
StartCodeBlock(fenced, info, groups) ==
    [Start("CodeBlock") EXCEPT !.fenced = fenced, !.text = info, !.groups = groups]

NoHeading == [some |-> FALSE, level |-> 0, inner |-> <<>>]
NoHighlighting == [del_lines |-> {}, add_lines |-> {}, h_lines |-> {}]

\* markdown.rs:189-197
InitialRenderer ==
    [status |-> "running",
     in_code_block |-> FALSE,
     code_content |-> <<>>,
     current_language |-> None,
     current_filename |-> None,
     current_highlighting |-> NoHighlighting,
     events |-> <<>>,
     toc |-> <<>>,
     current_heading |-> NoHeading,
     lang_info |-> <<>>,
     \* the fields below record the last code block for the properties; the
     \* renderer does not read them
     groups |-> <<>>,
     highlight_ok |-> TRUE,
     rendered_with |-> NoHighlighting]

Running == rs.status = "running" /\ pos <= Len(stream)
Event == stream[pos]

\* Event::Start(Tag::Heading { level, .. })
StartHeadingEvent ==
    /\ Running /\ Event.type = "Start" /\ Event.tag = "Heading"
    /\ rs' = [rs EXCEPT !.current_heading = [some |-> TRUE, level |-> Event.level, inner |-> <<>>]]
    /\ pos' = pos + 1
    /\ UNCHANGED stream
    /\ UNCHANGED pathVars
    /\ UNCHANGED siteVars
    /\ UNCHANGED procVars

\* Event::Start(Tag::CodeBlock(kind))
StartCodeBlockEvent ==
    /\ Running /\ Event.type = "Start" /\ Event.tag = "CodeBlock"
    /\ LET lang_info == IF Event.fenced THEN Event.text ELSE <<>>
           lf == extract_language_and_filename(lang_info)
       IN rs' = IF lf.filename = <<"<panic>">>
                THEN [rs EXCEPT !.status = "panicked", !.in_code_block = TRUE,
                                !.lang_info = lang_info, !.groups = Event.groups]
                ELSE [rs EXCEPT !.in_code_block = TRUE,
                                !.current_language = lf.language,
                                !.current_filename = lf.filename,
                                !.current_highlighting = parse_highlighting_info(lang_info),
                                !.code_content = <<>>,
                                !.lang_info = lang_info, !.groups = Event.groups]
    /\ pos' = pos + 1
    /\ UNCHANGED stream
    /\ UNCHANGED pathVars
    /\ UNCHANGED siteVars
    /\ UNCHANGED procVars

\* Event::Text(text) if in_code_block
CodeTextEvent ==
    /\ Running /\ Event.type = "Text" /\ rs.in_code_block
    /\ rs' = [rs EXCEPT !.code_content = @ \o Event.text]
    /\ pos' = pos + 1
    /\ UNCHANGED stream
    /\ UNCHANGED pathVars
    /\ UNCHANGED siteVars
    /\ UNCHANGED procVars

\* width_needed and the "{:0width$}" line number
LineNumberText(line_num, total_lines) ==
    PadLeft(ToDecimal(line_num), IF total_lines > 0 THEN Len(ToDecimal(total_lines)) ELSE 1, "0")

\* testing the add set before the delete set
LineClass_AddFirst(line_num, hl) ==
    IF line_num \in hl.add_lines THEN "highlight-add"
    ELSE IF line_num \in hl.del_lines THEN "highlight-del"
    ELSE IF line_num \in hl.h_lines THEN "highlight"
    ELSE ""

\* the class attribute of line line_num (markdown.rs:255-262)
LineClass(line_num, hl) ==
    IF line_num \in hl.del_lines THEN "highlight-del"
    ELSE IF line_num \in hl.add_lines THEN "highlight-add"
    ELSE IF line_num \in hl.h_lines THEN "highlight"
    ELSE ""

\* line_numbered_html, one record per <span> line
LineNumberedHtml(lines, hl) ==
    [i \in 1..Len(lines) |->
        [class |-> LineClass(i, hl), number |-> LineNumberText(i, Len(lines)), line |-> lines[i]]]

\* highlighted_html: `ok` is whether highlight_to_string returns Ok
HighlightedOrEscaped(language, code, ok) ==
    IF language # None /\ get_inkjet_language(language) /\ ok
    THEN HighlightedHtml(code)
    ELSE encode_minimal(code)

\* Event::End(TagEnd::CodeBlock) if in_code_block.  current_language.unwrap()
\* panics when the block has no language.
EndCodeBlockEvent(ok) ==
    /\ Running /\ Event.type = "End" /\ Event.tag = "CodeBlock" /\ rs.in_code_block
    /\ LET highlighted_html == HighlightedOrEscaped(rs.current_language, rs.code_content, ok)
           code_html ==
               [type |-> "Html", tag |-> "CodeBlock",
                filename |-> rs.current_filename,
                language |-> rs.current_language,
                lines |-> LineNumberedHtml(Lines(highlighted_html), rs.current_highlighting),
                highlighted |-> highlighted_html]
       IN rs' = IF rs.current_language = None
                THEN [rs EXCEPT !.status = "panicked", !.in_code_block = FALSE,
                                !.highlight_ok = ok]
                ELSE [rs EXCEPT !.in_code_block = FALSE,
                                !.highlight_ok = ok,
                                !.rendered_with = rs.current_highlighting,
                                !.events = Append(@, code_html),
                                !.current_language = None,
                                !.current_filename = None,
                                !.current_highlighting = NoHighlighting]
    /\ pos' = pos + 1
    /\ UNCHANGED stream
    /\ UNCHANGED pathVars
    /\ UNCHANGED siteVars
    /\ UNCHANGED procVars

RECURSIVE TextContent(_)
TextContent(inner) ==
    IF inner = <<>> THEN <<>>
    ELSE (IF inner[1].type = "Text" THEN inner[1].text ELSE <<>>) \o TextContent(Tail(inner))

RECURSIVE KeepSlugChars(_)
KeepSlugChars(s) ==
    IF s = <<>> THEN <<>>
    ELSE (IF is_alphanumeric(s[1]) \/ s[1] = "-" THEN <<s[1]>> ELSE <<>>) \o KeepSlugChars(Tail(s))

\* a table of contents without two entries of the same id
TocPush_Unique(toc, entry) ==
    IF \E i \in 1..Len(toc) : toc[i].id = entry.id THEN toc ELSE Append(toc, entry)

\* toc.push(TOCEntry { level, id, title })
TocPush(toc, entry) == Append(toc, entry)

Slug(text_content) == KeepSlugChars(ReplaceChar(to_lowercase(Trim(text_content)), " ", <<"-">>))

\* Event::End(TagEnd::Heading(_))
EndHeadingEvent ==
    /\ Running /\ Event.type = "End" /\ Event.tag = "Heading"
    /\ rs' = IF rs.current_heading.some
             THEN LET level == rs.current_heading.level
                      inner_events == rs.current_heading.inner
                      text_content == TextContent(inner_events)
                      slug == Slug(text_content)
                  IN [rs EXCEPT !.current_heading = NoHeading,
                                !.toc = TocPush(@, [level |-> level, id |-> slug, title |-> text_content]),
                                !.events = Append(@, [type |-> "Html", tag |-> "Heading", level |-> level,
                                                      id |-> slug, inner |-> inner_events])]
             ELSE rs
    /\ pos' = pos + 1
    /\ UNCHANGED stream
    /\ UNCHANGED pathVars
    /\ UNCHANGED siteVars
    /\ UNCHANGED procVars

\* the `_` arm
OtherEvent ==
    /\ Running
    /\ ~(Event.type = "Start" /\ Event.tag \in {"Heading", "CodeBlock"})
    /\ ~(Event.type = "Text" /\ rs.in_code_block)
    /\ ~(Event.type = "End" /\ Event.tag = "CodeBlock" /\ rs.in_code_block)
    /\ ~(Event.type = "End" /\ Event.tag = "Heading")
    /\ rs' = IF rs.in_code_block
             THEN (IF Event.type = "Text" THEN [rs EXCEPT !.code_content = @ \o Event.text] ELSE rs)
             ELSE IF rs.current_heading.some
                  THEN [rs EXCEPT !.current_heading.inner = Append(@, Event)]
                  ELSE [rs EXCEPT !.events = Append(@, Event)]
    /\ pos' = pos + 1
    /\ UNCHANGED stream
    /\ UNCHANGED pathVars
    /\ UNCHANGED siteVars
    /\ UNCHANGED procVars

\* the end of the loop: html::push_html(events) and the return of (html, toc)
FinishRender ==
    /\ rs.status = "running" /\ pos = Len(stream) + 1
    /\ rs' = [rs EXCEPT !.status = "done"]
    /\ UNCHANGED <<stream, pos>>
    /\ UNCHANGED pathVars
    /\ UNCHANGED siteVars
    /\ UNCHANGED procVars

NextRender ==
    \/ StartHeadingEvent
    \/ StartCodeBlockEvent
    \/ CodeTextEvent
    \/ \E ok \in BOOLEAN : EndCodeBlockEvent(ok)
    \/ EndHeadingEvent
    \/ OtherEvent
    \/ FinishRender

-----------------------------------------------------------------------------
(* The rendering specification: an event stream of the parser, one event of  *)
(* the loop per step                                                         *)

\* blocks per event stream
MaxBlocks == 2
\* lines per code block
MaxLines == 5

S_rust == <<"r", "u", "s", "t">>

\* a {...} group of a fence info string as written, with the line numbers it
\* denotes: tag is "" (bare), "add" or "del"
Group(tag, text, lines) == [tag |-> tag, text |-> text, lines |-> lines]

GroupText(g) ==
    (IF g.tag = "" THEN <<>> ELSE IF g.tag = "add" THEN S_add_eq ELSE S_del_eq)
        \o <<"{">> \o g.text \o <<"}">>

RECURSIVE InfoText(_, _)
InfoText(lang, groups) ==
    IF groups = <<>> THEN lang
    ELSE InfoText(lang \o <<" ">> \o GroupText(groups[1]), Tail(groups))

G_bare == Group("", <<"2", ",", "4", "-", "5">>, {2, 4, 5})
G_add == Group("add", <<"1">>, {1})
G_del == Group("del", <<"3">>, {3})
G_bare_wide == Group("", <<"2", "-", "4">>, {2, 3, 4})
G_add_over == Group("add", <<"2", ",", " ", "3">>, {2, 3})
G_del_over == Group("del", <<"2">>, {2})

GroupLists ==
    { <<>>, <<G_bare>>, <<G_bare, G_add, G_del>>, <<G_add, G_del, G_bare>>,
      <<G_add, G_bare, G_del>>, <<G_del_over, G_add_over, G_bare_wide>>,
      <<G_bare_wide, G_del_over>> }

\* fence info strings without groups: none, an unknown tag, a known tag in
\* upper case, titles
PlainInfos ==
    { <<>>, <<"z", "z">>, <<"R", "u", "s", "t">>,
      S_rust \o <<" ">> \o S_title_eq \o <<"a", ".", "r", "s">>,
      <<"r", "s", " ">> \o S_title_eq \o <<"\"", "a", "\"">>,
      <<"r", "s", " ">> \o S_title_eq \o <<"\"">> }

CodeLine(i) == IF i = 1 THEN <<"a", "<", "b", "\n">> ELSE <<"c", "\n">>

CodeBlock(fenced, info, groups) ==
    <<StartCodeBlock(fenced, info, groups)>>
        \o [i \in 1..MaxLines |-> Text(CodeLine(i))]
        \o <<End("CodeBlock")>>

S_hi == <<"h", "i">>

Blocks ==
    { <<Start("Paragraph"), Text(S_hi), End("Paragraph")>>,
      <<StartHeading(1), Text(S_Ad), EndHeading(1)>>,
      <<StartHeading(2), Text(S_Ad), EndHeading(2)>>,
      <<StartHeading(3), Code(<<"x">>), Text(<<" ", "y">>), EndHeading(3)>>,
      CodeBlock(FALSE, <<>>, <<>>) }
    \cup {CodeBlock(TRUE, InfoText(S_rust, gs), gs) : gs \in GroupLists \ {<<>>}}
    \cup {CodeBlock(TRUE, InfoText(<<"z", "z">>, <<G_bare>>), <<G_bare>>)}
    \cup {CodeBlock(TRUE, info, <<>>) : info \in PlainInfos}

Streams == UNION {{Concat(bs) : bs \in [1..k -> Blocks]} : k \in 1..MaxBlocks}

InitRender ==
    /\ stream \in Streams
    /\ pos = 1
    /\ rs = InitialRenderer
    /\ tree = TreeA
    /\ FILE_CACHE = CacheNone
    /\ walks = 0
    /\ ncalls = 0
    /\ call = NoCall("link", S_index, None)
    /\ fm = IdleFrontmatter
    /\ site = IdleBuild
    /\ IdleProcesses

SpecRender == InitRender /\ [][NextRender]_vars

-----------------------------------------------------------------------------
(* Vocabulary of the claims, read off the content tree itself *)

IsBare(ref) == ~ContainsChar(ref, "/")

\* a name matches a file when it is the file's name, or the file is a
\* document (.md) and the name is its stem
NameMatches(name, entry) ==
    /\ entry.is_file
    /\ \/ FileName(entry.path) = name
       \/ IsSuffix(S_md, FileName(entry.path)) /\ FileStem(FileName(entry.path)) = name

\* the paths of the files a name matches, in the order of the tree walk
RECURSIVE MatchesIn(_, _)
MatchesIn(t, name) ==
    IF t = <<>> THEN <<>>
    ELSE (IF NameMatches(name, t[1]) THEN <<t[1].path>> ELSE <<>>) \o MatchesIn(Tail(t), name)

ContentRelative(p) == OrEmpty(StripPrefix(p, S_content))

DocDir(doc) == ContentRelative(OrEmpty(PathParent(doc)))

DisplayOf(c) == IF c.alt = None THEN DefaultDisplayText(c.ref) ELSE c.alt

ExpectImage(c, target) == Pre \o ImageMarkup(OrEmpty(c.alt), target) \o Post
ExpectLink(c, target) == Pre \o LinkMarkup(DisplayOf(c), target) \o Post

-----------------------------------------------------------------------------
(* C1 *)

C1_Case ==
    /\ call.done /\ call.kind = "embed" /\ IsBare(call.ref)
    /\ call.std = call.text
    /\ Len(MatchesIn(tree, call.ref)) = 1

\* C1: an embed image ![[name|alt]] whose bare name matches exactly one file of
\* the tree, at content-relative path P, leaves process_alternative_images as
\* ![alt](/static/S) with S = sanitize_filename(P), whatever the directory of
\* the referencing document.
C1_EmbedUniqueMatch ==
    C1_Case =>
        call.embeds =
            ExpectImage(call, S_static \o sanitize_filename(ContentRelative(MatchesIn(tree, call.ref)[1])))

\* the unique match lies in a subdirectory other than the referencing document's
C1_Witness ==
    /\ C1_Case
    /\ call.alt # None
    /\ Len(Components(ContentRelative(MatchesIn(tree, call.ref)[1]))) = 3
    /\ DocDir(call.doc) = N_a

-----------------------------------------------------------------------------
(* C2 *)

RECURSIVE LeadingUps(_)
LeadingUps(ref) == IF IsPrefix(S_dotdotslash, ref) THEN 1 + LeadingUps(Drop(ref, 3)) ELSE 0

Min(a, b) == IF a <= b THEN a ELSE b

\* the directory `levels` levels above dir, stopping at the content root,
\* followed by the remaining segments
AscendThenAppend(dir, levels, rest) ==
    LET cs == Components(dir)
        kept == SubSeq(cs, 1, Len(cs) - Min(levels, Len(cs)))
    IN JoinWith(kept \o SplitOn(rest, "/"), "/")

C2_Case ==
    /\ call.done /\ call.kind \in {"image", "embed"}
    /\ LeadingUps(call.ref) >= 1

\* C2: resolve_path on a reference with n leading ../ segments, issued from a
\* document at directory depth d, ascends exactly min(n, d) levels before the
\* remaining segments are appended; no literal `..` reaches the asset path.
C2_AscendsMinLevels ==
    C2_Case =>
        call.out =
            ExpectImage(call,
                S_static \o sanitize_filename(
                    AscendThenAppend(DocDir(call.doc), LeadingUps(call.ref),
                                     Drop(call.ref, 3 * LeadingUps(call.ref)))))

-----------------------------------------------------------------------------
(* C3 *)

C3_Case ==
    /\ call.done /\ call.kind \in {"image", "embed"}
    /\ IsBare(call.ref)
    /\ MatchesIn(tree, call.ref) = <<>>

\* C3: a bare asset reference matching zero File Index entries resolves to the
\* asset path of the same-directory reference ./<name> from the same document,
\* wherever the document lies.
C3_BareUnmatchedAsSameDirectory ==
    C3_Case =>
        call.out =
            process_paths_passes(FILE_CACHE,
                                 Body(call.kind, S_dotslash \o call.ref, call.alt),
                                 call.doc).out

-----------------------------------------------------------------------------
(* C7 *)

FirstDocumentOf(paths) ==
    LET docs == {i \in 1..Len(paths) : IsSuffix(S_md, paths[i])}
    IN IF docs = {} THEN None ELSE paths[CHOOSE i \in docs : \A k \in docs : i <= k]

ExpectedDocumentUrl(p) ==
    LET rel == ContentRelative(p)
        cut == IF IsSuffix(S_md, rel) THEN SubSeq(rel, 1, Len(rel) - 3) ELSE WithoutExtension(rel)
    IN IF cut = S_index THEN <<"/">> ELSE <<"/">> \o cut

C7_Case ==
    /\ call.done /\ call.kind \in {"embed", "link"} /\ IsBare(call.ref)
    /\ call.std = call.text
    /\ Len(MatchesIn(tree, call.ref)) >= 2

\* C7: a bare name that matches several files resolves to the member the tree
\* walk met first (for a link, the first matching document when there is one);
\* the result is a function of the tree and the name alone, so every lookup of
\* the name within one build gives the same member.
C7_FirstWalkOrderMember ==
    C7_Case =>
        LET ms == MatchesIn(tree, call.ref)
        IN /\ call.kind = "embed" =>
                 call.embeds = ExpectImage(call, S_static \o sanitize_filename(ContentRelative(ms[1])))
           /\ call.kind = "link" =>
                 call.links =
                     ExpectLink(call, ExpectedDocumentUrl(
                         IF FirstDocumentOf(ms) = None THEN ms[1] ELSE FirstDocumentOf(ms)))

\* a second lookup in the same build, of a name whose first match in walk
\* order is not its first match in lexicographic or depth order
C7_Witness ==
    /\ C7_Case
    /\ ncalls = 2
    /\ tree = TreeD
    /\ call.ref = N_n
    /\ call.kind = "link"

-----------------------------------------------------------------------------
(* C8 *)

C8_Case ==
    /\ call.done /\ call.kind = "link"
    /\ ~IsAbsoluteRef(call.ref) /\ ~IsPrefix(S_wiki, call.ref)

\* C8: a bare wiki link is resolved through the File Index using only entries
\* with the document extension: its target is the document path of a matching
\* document, or the path-rule fallback, never a path derived from a
\* non-document file; a reference with a separator is resolved by the
\* document-path rule alone.
C8_LinksOnlyToDocuments ==
    C8_Case =>
        LET ms == MatchesIn(tree, call.ref)
        IN IF IsBare(call.ref)
           THEN call.links =
                    ExpectLink(call, IF FirstDocumentOf(ms) = None
                                     THEN get_internal_link_path(call.ref)
                                     ELSE ExpectedDocumentUrl(FirstDocumentOf(ms)))
           ELSE call.links = ExpectLink(call, get_internal_link_path(call.ref))

-----------------------------------------------------------------------------
(* C9 *)

C9_Case ==
    /\ call.done /\ call.kind \in Kinds
    /\ ~IsAbsoluteRef(call.ref) /\ ~IsPrefix(S_wiki, call.ref)
    /\ MatchesIn(tree, call.ref) = <<>>

\* C9: for a reference that matches zero File Index entries the rewriter's
\* output is the reference's markup with the path-relative fallback as its
\* target (resolve_path for images, get_internal_link_path for links), between
\* the untouched surrounding text: nothing is dropped and nothing fails.
C9_UnmatchedUsesFallback ==
    C9_Case =>
        call.out =
            IF call.kind = "link" THEN ExpectLink(call, get_internal_link_path(call.ref))
            ELSE ExpectImage(call, resolve_path(call.ref, call.doc))

\* a bare embed with no match, referenced from a document in a subdirectory
C9_Witness ==
    /\ C9_Case
    /\ call.kind = "embed" /\ IsBare(call.ref)
    /\ DocDir(call.doc) # <<>>
    /\ FILE_CACHE.some /\ call.ref \notin DOMAIN FILE_CACHE.file_map

\* a bare link with no match
C9_WitnessLink ==
    /\ C9_Case
    /\ call.kind = "link" /\ IsBare(call.ref)

-----------------------------------------------------------------------------
(* C10 *)

RefersTo(ref, d) ==
    \/ ref = CanonicalPath(d)
    \/ /\ ContainsChar(ref, "/")
       /\ ref \in {ContentRelative(d), WithoutExtension(ContentRelative(d))}

C10_Case(d) ==
    /\ call.done /\ call.kind = "link"
    /\ d \in BuildDocuments(tree)
    /\ RefersTo(call.ref, d)

\* C10: a wiki link whose reference is a document's canonical path, or its
\* content-relative path (with a separator) with or without .md, is rewritten
\* to the URL under which build writes that document's page.
C10_LinkRoundTrip ==
    \A d \in BuildDocuments(tree) :
        C10_Case(d) => call.links = ExpectLink(call, ServedUrl(DocumentOutputPath(d)))

\* a link by relative path with the .md suffix to a nested document named index
C10_Witness ==
    \E d \in BuildDocuments(tree) :
        /\ C10_Case(d)
        /\ call.ref = ContentRelative(d)
        /\ FileName(d) = N_index_md
        /\ DocDir(d) # <<>>

\* a link by canonical path to the root index document
C10_WitnessRoot ==
    \E d \in BuildDocuments(tree) :
        /\ C10_Case(d)
        /\ call.ref = <<"/">>
        /\ ContentRelative(d) = N_index_md

-----------------------------------------------------------------------------
(* Code blocks: the state right after the loop has handled End(CodeBlock) *)

JustEndedCodeBlock ==
    /\ rs.status # "done" /\ pos > 1
    /\ stream[pos - 1].type = "End" /\ stream[pos - 1].tag = "CodeBlock"

\* the literal HTML event the block was replaced by
BlockHtml == rs.events[Len(rs.events)]

BlockLanguage == extract_language_and_filename(rs.lang_info).language

\* the block carries no language, or a tag LANGUAGE_MAP does not know, or its
\* highlighting failed
Unhighlightable ==
    \/ BlockLanguage = None
    \/ to_lowercase(BlockLanguage) \notin LANGUAGE_MAP
    \/ ~rs.highlight_ok

EscapedLines(code) == [i \in 1..Len(Lines(code)) |-> encode_minimal(Lines(code)[i])]

-----------------------------------------------------------------------------
(* C4 *)

\* C4: a code block without a language, with an unrecognised tag, or whose
\* highlighting fails never makes the render panic, and is emitted as the
\* HTML-escaped lines of its text, without highlighting markup (so a missing
\* and an unrecognised tag are rendered alike).
C4_UnhighlightableRendersEscaped ==
    (JustEndedCodeBlock /\ Unhighlightable) =>
        /\ rs.status # "panicked"
        /\ rs.events # <<>> /\ BlockHtml.type = "Html" /\ BlockHtml.tag = "CodeBlock"
        /\ [i \in 1..Len(BlockHtml.lines) |-> BlockHtml.lines[i].line] = EscapedLines(rs.code_content)

-----------------------------------------------------------------------------
(* C5 *)

TaggedLines(groups, tags) ==
    UNION {groups[i].lines : i \in {k \in 1..Len(groups) : groups[k].tag \in tags}}

LinesWithClass(html, class) == {i \in 1..Len(html.lines) : html.lines[i].class = class}

C5_Case ==
    /\ JustEndedCodeBlock /\ rs.status = "running"
    /\ Cardinality({k \in 1..Len(rs.groups) : rs.groups[k].tag = ""}) = 1
    /\ \E k \in 1..Len(rs.groups) : rs.groups[k].tag \in {"add", "del"}

\* C5: when the info string holds a bare {...} group together with add={...}
\* and/or del={...} groups, in any order, the lines of class `highlight` are
\* exactly the lines of the bare group that are in neither the add nor the
\* delete set.
C5_BareGroupIsHighlightSet ==
    C5_Case =>
        LinesWithClass(BlockHtml, "highlight") =
            (TaggedLines(rs.groups, {""}) \ TaggedLines(rs.groups, {"add", "del"}))
                \cap (1..Len(BlockHtml.lines))

-----------------------------------------------------------------------------
(* C6 *)

C6_Case == JustEndedCodeBlock /\ rs.status = "running"

\* C6: every rendered code line carries exactly one class, chosen with
\* precedence delete > add > highlight over the block's three line sets, and
\* none when it is in no set; lines are numbered from 1.
C6_ClassPrecedence ==
    C6_Case =>
        \A i \in 1..Len(BlockHtml.lines) :
            LET l == BlockHtml.lines[i]
                hl == rs.rendered_with
            IN /\ DecimalValue(l.number) = i
               /\ i \in hl.del_lines => l.class = "highlight-del"
               /\ (i \notin hl.del_lines /\ i \in hl.add_lines) => l.class = "highlight-add"
               /\ (i \notin hl.del_lines /\ i \notin hl.add_lines /\ i \in hl.h_lines)
                      => l.class = "highlight"
               /\ (i \notin hl.del_lines /\ i \notin hl.add_lines /\ i \notin hl.h_lines)
                      => l.class = ""

\* a block with a line in all three sets, a line in the add and highlight
\* sets only, a line in the highlight set only and a line in no set
C6_Witness ==
    /\ C6_Case
    /\ LET hl == rs.rendered_with
           n == 1..Len(BlockHtml.lines)
       IN /\ \E i \in n : i \in hl.del_lines \cap hl.add_lines \cap hl.h_lines
          /\ \E i \in n : i \in (hl.add_lines \cap hl.h_lines) \ hl.del_lines
          /\ \E i \in n : i \in hl.h_lines \ (hl.add_lines \cup hl.del_lines)
          /\ \E i \in n : i \notin hl.h_lines \cup hl.add_lines \cup hl.del_lines

-----------------------------------------------------------------------------
(* C11 *)

AssetClass == Lower \cup Digits \cup Upper \cup {".", "_", "-"}

\* exactly four hexadecimal digits of a code point
FourHex(n) == PadLeft(ToHex(n % 65536), 4, "0")

FlattenChar(c) ==
    IF c \in AssetClass THEN <<c>>
    ELSE IF c = "/" THEN <<"-">>
    ELSE <<"-", "u">> \o FourHex(CodePoint(c))

RECURSIVE Flatten(_)
Flatten(p) == IF p = <<>> THEN <<>> ELSE FlattenChar(p[1]) \o Flatten(Tail(p))

\* a standard image whose reference is itself the relative path handed to
\* sanitize_filename (neither absolute nor starting with ./ or ../)
C11_Case ==
    /\ call.done /\ call.kind = "image"
    /\ ~IsAbsoluteRef(call.ref)
    /\ ~IsPrefix(S_dotslash, call.ref) /\ ~IsPrefix(S_dotdotslash, call.ref)

\* C11: the asset path of a relative path is /static/ followed by a string over
\* [A-Za-z0-9._-] only: each separator becomes one `-`, each other character
\* outside the class becomes `-u` and exactly four hexadecimal digits of its
\* code point, and the characters of the class (the extension's among them)
\* are unchanged.
C11_AssetPathOverClass ==
    C11_Case =>
        /\ call.out = ExpectImage(call, S_static \o Flatten(call.ref))
        /\ \A i \in 1..Len(sanitize_filename(call.ref)) :
               sanitize_filename(call.ref)[i] \in AssetClass

-----------------------------------------------------------------------------
(* C12 *)

C12_Case ==
    /\ call.done /\ call.kind \in Kinds
    /\ IsPrefix(S_http, call.ref) \/ IsPrefix(S_https, call.ref) \/ IsPrefix(<<"/">>, call.ref)

\* C12: in every rewriting pass a reference that starts with http://, https://
\* or / keeps its target string: the output carries the reference itself as
\* the target, not sanitized, not prefixed with /static/, with its extension,
\* and not replaced by a File Index entry.
C12_AbsoluteUnchanged ==
    C12_Case =>
        /\ call.kind = "image" => call.std = ExpectImage(call, call.ref)
        /\ call.kind = "embed" => call.embeds = ExpectImage(call, call.ref)
        /\ call.kind = "link" => call.links = ExpectLink(call, call.ref)
        /\ call.out = IF call.kind = "link" THEN ExpectLink(call, call.ref)
                      ELSE ExpectImage(call, call.ref)

\* a link to a root-anchored path that names a document with its extension
C12_Witness ==
    /\ C12_Case
    /\ call.kind = "link"
    /\ call.ref = <<"/">> \o Rel(<<N_a, N_n_md>>)

\* an embed of an http:// reference whose name would need sanitizing
C12_WitnessEmbed ==
    /\ C12_Case
    /\ call.kind = "embed"
    /\ call.ref = S_http \o N_rs_png

-----------------------------------------------------------------------------
(* C13 *)

\* C13: process_wiki_parenthetical_links applied to its own output changes
\* nothing, for every text: the application markdown_to_html makes after
\* process_paths leaves the text as process_paths returned it.
C13_WikiPassIdempotent ==
    call.done =>
        /\ call.rewiki = call.out
        /\ process_wiki_parenthetical_links(process_wiki_parenthetical_links(call.text))
               = process_wiki_parenthetical_links(call.text)

-----------------------------------------------------------------------------
(* C14 *)

Article(ref) == Drop(ref, Len(S_wiki))

LastSegment(path) ==
    LET Last(segs) == segs[Len(segs)] IN Last(SplitOn(path, "/"))

C14_WikiCase == call.done /\ call.kind = "link" /\ IsPrefix(S_wiki, call.ref)

C14_PlainCase ==
    /\ call.done /\ call.kind = "link" /\ ~IsPrefix(S_wiki, call.ref)
    /\ call.alt = None

\* C14: [[wiki:A|D]] becomes [wiki:D](https://en.wikipedia.org/wiki/A), with D
\* the article name A when no display text is given, and is not resolved as a
\* document path or through the File Index; a non-wiki link without display
\* text shows the final segment of its path.
C14_WikiNamespaceLink ==
    /\ C14_WikiCase =>
           /\ call.links =
                  Pre \o LinkMarkup(S_wiki \o (IF call.alt = None THEN Article(call.ref)
                                                ELSE call.alt),
                                    S_wikipedia \o Article(call.ref)) \o Post
           /\ call.out = call.links
    /\ C14_PlainCase =>
           IsPrefix(Pre \o <<"[">> \o LastSegment(call.ref) \o <<"]", "(">>, call.links)

-----------------------------------------------------------------------------
(* markdown.rs: extract_frontmatter (build.rs:29-63 is the same function) *)

S_dashes == <<"-", "-", "-">>
end_pattern == <<"\n", "-", "-", "-">>
K_title == <<"t", "i", "t", "l", "e">>
K_date == <<"d", "a", "t", "e">>

\* the YAML value of a plain scalar: null when empty, a number when it is all
\* digits, otherwise a string
YamlScalar(text) ==
    [type |-> IF text = <<>> THEN "null"
              ELSE IF \A i \in 1..Len(text) : text[i] \in Digits THEN "number"
              ELSE "string",
     text |-> text]

NonBlank(lines) == SelectSeq(lines, LAMBDA l : Trim(l) # <<>>)

\* serde_yaml::from_str on block-style text: a mapping when every non-blank
\* line is `key: value`; anything else (a syntax error, or a document that is
\* not a mapping: a scalar, a sequence, null) is "other"
serde_yaml_from_str(str) ==
    LET Colon(line) == FindFrom(line, 1, <<":">>)
        Key(line, c) == SubSeq(line, 1, c - 1)
        Value(line, c) == YamlScalar(Trim(Drop(line, c)))
        Mapping(lines) ==
            IF lines = <<>> \/ \E i \in 1..Len(lines) : Colon(lines[i]) <= 1
            THEN [kind |-> "other", map |-> EmptyMap]
            ELSE [kind |-> "mapping",
                  map |-> [k \in {Key(lines[i], Colon(lines[i])) : i \in 1..Len(lines)} |->
                              LET i == CHOOSE j \in 1..Len(lines) :
                                           Key(lines[j], Colon(lines[j])) = k
                              IN Value(lines[i], Colon(lines[i]))]]
    IN Mapping(NonBlank(SplitOn(str, "\n")))

FrontmatterErr(msg) == [ok |-> FALSE, err |-> msg, frontmatter |-> EmptyMap, body |-> <<>>]

extract_frontmatter(content) ==
    LET Checked(frontmatter, md_content) ==
            IF frontmatter.kind # "mapping" THEN FrontmatterErr("yaml")
            ELSE IF K_title \notin DOMAIN frontmatter.map \/ K_date \notin DOMAIN frontmatter.map
                 THEN FrontmatterErr("Missing title or date in frontmatter")
            ELSE IF frontmatter.map[K_title].type # "string"
                    \/ frontmatter.map[K_date].type # "string"
                 THEN FrontmatterErr("Title and date must be strings")
            ELSE [ok |-> TRUE, err |-> "", frontmatter |-> frontmatter.map, body |-> md_content]
        \* found = 1 + end (0 when find returns None); frontmatter_end = 3 + end
        Ended(trimmed, found) ==
            IF found = 0 THEN FrontmatterErr("Frontmatter end delimiter not found")
            ELSE Checked(serde_yaml_from_str(Trim(SubSeq(trimmed, 4, found + 2))),
                         Drop(trimmed, found + 2 + Len(end_pattern)))
        Started(trimmed) ==
            IF ~IsPrefix(S_dashes, trimmed) THEN FrontmatterErr("Frontmatter is missing")
            ELSE Ended(trimmed, FindFrom(Drop(trimmed, 3), 1, end_pattern))
    IN Started(TrimStart(content))

-----------------------------------------------------------------------------
(* Specification of extract_frontmatter over bounded documents: a document is
   lead \o open \o title \o date \o close \o body *)

NL == <<"\n">>
S_title_a == K_title \o <<":", " ", "a">> \o NL
S_title_1 == K_title \o <<":", " ", "1">> \o NL
S_title_null == K_title \o <<":">> \o NL
S_date_b == K_date \o <<":", " ", "b">> \o NL
S_date_2 == K_date \o <<":", " ", "2">> \o NL
S_body == <<"b">> \o NL

Leads == {<<>>, NL}
Opens == {S_dashes \o NL, <<"-">> \o S_dashes \o NL, S_dashes, <<>>}
Titles == {S_title_a, S_title_1, S_title_null, <<>>}
Dates == {S_date_b, S_date_2, <<>>}
Closes == {S_dashes \o NL, <<"-">> \o S_dashes \o NL, S_dashes \o <<"x">> \o NL, <<>>}
Bodies == {S_body, <<>>}

Document(lead, open, title, date, close, body) ==
    [idle |-> FALSE, called |-> FALSE,
     open |-> open, title |-> title, date |-> date, close |-> close, body |-> body,
     content |-> lead \o open \o title \o date \o close \o body,
     result |-> FrontmatterErr("")]

InitFrontmatter ==
    /\ \E lead \in Leads, open \in Opens, title \in Titles, date \in Dates,
          close \in Closes, body \in Bodies :
          fm = Document(lead, open, title, date, close, body)
    /\ site = IdleBuild
    /\ IdleProcesses
    /\ tree = TreeA
    /\ FILE_CACHE = CacheNone
    /\ walks = 0
    /\ ncalls = 0
    /\ call = NoCall("link", S_index, None)
    /\ stream = IdleStream
    /\ pos = 0
    /\ rs = IdleRenderer

ExtractFrontmatter ==
    /\ ~fm.idle
    /\ ~fm.called
    /\ fm' = [fm EXCEPT !.called = TRUE, !.result = extract_frontmatter(fm.content)]
    /\ UNCHANGED site
    /\ UNCHANGED procVars
    /\ UNCHANGED pathVars
    /\ UNCHANGED mdVars

NextFrontmatter == ExtractFrontmatter

SpecFrontmatter == InitFrontmatter /\ [][NextFrontmatter]_vars

-----------------------------------------------------------------------------
(* build.rs: build() over a content tree whose documents hold bounded texts *)

N_a_md == <<"a", ".", "m", "d">>

\* a document next to a directory of its own stem
TreeF ==
    << DirEntry(<<>>), DirEntry(<<N_a>>), FileEntry(<<N_a, N_n_md>>),
       FileEntry(<<N_a_md>>) >>

N_a_q_png == <<"a", "-", "u", "0", "0", "2", "f", "q", ".", "p", "n", "g">>
N_index_html == <<"i", "n", "d", "e", "x", ".", "h", "t", "m", "l">>
N_static_md == <<"s", "t", "a", "t", "i", "c", ".", "m", "d">>

\* assets and a document whose names meet under dist/static
TreeG ==
    << DirEntry(<<>>), DirEntry(<<N_a>>), FileEntry(<<N_a, N_q_png>>),
       FileEntry(<<N_a_q_png>>), FileEntry(<<N_index_html>>),
       FileEntry(<<N_static_md>>) >>

BuildTrees == {TreeB, TreeD, TreeF, TreeG}

B_link == <<"[", "[", "n", "]", "]">> \o NL

D_good == Document(<<>>, S_dashes \o NL, S_title_a, S_date_b, S_dashes \o NL, S_body)
D_unclosed == Document(<<>>, S_dashes \o NL, S_title_a, S_date_b, <<>>, S_body)
D_untitled == Document(<<>>, S_dashes \o NL, <<>>, S_date_b, S_dashes \o NL, S_body)
D_glued == Document(<<>>, S_dashes \o NL, S_title_a, S_date_b, S_dashes \o <<"x">> \o NL, S_body)
D_linking == Document(<<>>, S_dashes \o NL, S_title_a, S_date_b, S_dashes \o NL, B_link)
Documents == {D_good, D_unclosed, D_untitled, D_glued, D_linking}

MarkdownPaths(t) ==
    {t[i].path : i \in {k \in 1..Len(t) : t[k].is_file /\ IsSuffix(S_md, t[k].path)}}

is_not_hidden_dir(entry) ==
    IF ~entry.is_file THEN ~IsHiddenName(FileName(entry.path)) ELSE TRUE

\* WalkDir::new("content").into_iter().filter_entry(is_not_hidden_dir): an
\* entry is yielded when it and every directory above it pass the filter
WalkYields(t) ==
    LET Above(path) == {t[k] : k \in {j \in 1..Len(t) :
                            ~t[j].is_file /\ IsPrefix(t[j].path \o <<"/">>, path)}}
        Passes(entry) ==
            is_not_hidden_dir(entry) /\ \A d \in Above(entry.path) : is_not_hidden_dir(d)
    IN SelectSeq(t, Passes)

NamingConflict_AnyDirectory(t) ==
    \E i, j \in 1..Len(WalkYields(t)) :
        /\ WalkYields(t)[i].is_file /\ IsSuffix(S_md, WalkYields(t)[i].path)
        /\ ~WalkYields(t)[j].is_file /\ WalkYields(t)[j].path # S_content
        /\ PathParent(WalkYields(t)[i].path) = PathParent(WalkYields(t)[j].path)

\* the first loop of build() and the check that follows it: a document and a
\* directory of the same parent where the document's stem is the directory's name
NamingConflict(t) ==
    LET Named(entry) == ~IsHiddenName(FileName(entry.path))
        IsMarkdown(entry) ==
            Named(entry) /\ entry.is_file /\ Extension(FileName(entry.path)) = <<"m", "d">>
        IsDirectory(entry) == Named(entry) /\ ~entry.is_file /\ entry.path # S_content
        Conflict(ys) ==
            \E i, j \in 1..Len(ys) :
                /\ IsMarkdown(ys[i])
                /\ IsDirectory(ys[j])
                /\ PathParent(ys[i].path) = PathParent(ys[j].path)
                /\ FileStem(FileName(ys[i].path)) = FileName(ys[j].path)
    IN Conflict(WalkYields(t))

\* the private sanitize_filename of build.rs: every character outside
\* [alphanumeric . - _] becomes -uXXXX, the slash included, so the closing
\* replace finds no slash left
build_sanitize_filename(path) == ReplaceChar(SanitizeChars(path), "/", <<"-">>)

\* create_listing(dir): WalkDir::new(dir).max_depth(1), the directory itself
\* skipped; a document is listed under its URL after its frontmatter is read,
\* any other file under its static URL; directories are not listed
create_listing(t, contents, dir) ==
    LET IsChild(entry) == PathParent(entry.path) = dir
        IsListedDocument(entry) == entry.is_file /\ IsSuffix(S_md, FileName(entry.path))
        Rejected(entry) ==
            IsListedDocument(entry) /\ ~extract_frontmatter(contents[entry.path].content).ok
        Item(entry) ==
            IF IsListedDocument(entry)
            THEN [path |-> entry.path,
                  url |-> <<"/">> \o OrEmpty(StripPrefix(WithoutExtension(entry.path), S_content))]
            ELSE [path |-> entry.path,
                  url |-> S_static \o
                          build_sanitize_filename(OrEmpty(StripPrefix(entry.path, S_content)))]
        ItemOf(children, i) == Item(children[i])
        Listed(children) ==
            IF \E i \in 1..Len(children) : Rejected(children[i])
            THEN [ok |-> FALSE,
                  failed |-> children[CHOOSE i \in 1..Len(children) :
                                          /\ Rejected(children[i])
                                          /\ \A k \in 1..(i - 1) : ~Rejected(children[k])].path,
                  items |-> <<>>]
            ELSE [ok |-> TRUE, failed |-> None,
                  items |-> [i \in 1..Len(SelectSeq(children, LAMBDA e : e.is_file)) |->
                                ItemOf(SelectSeq(children, LAMBDA e : e.is_file), i)]]
    IN Listed(SelectSeq(t, IsChild))

StaticOutputPath(entry_path) ==
    PathPush(PathPush(S_dist, <<"s", "t", "a", "t", "i", "c">>),
             build_sanitize_filename(OrEmpty(StripPrefix(entry_path, S_content))))

\* build(): the output file of the listing of the directory at entry_path
ListingOutputPath(entry_path) ==
    PathPush(PathPush(S_dist, OrEmpty(StripPrefix(entry_path, S_content))), S_index_html)

\* safely_write_file / fs::copy: the entry written from and the file written to
Write(from, to) == [from |-> from, to |-> to]

\* build() is entered: nothing rendered, copied or listed yet
EnterBuild(contents) ==
    [idle |-> FALSE, contents |-> contents, phase |-> "start", i |-> 0,
     result |-> "none", error |-> "none", failed |-> None, rendered |-> {}, pages |-> {},
     context |-> EmptyMap,
     copies |-> {}, listings |-> EmptyMap, writes |-> {}]

InitBuild ==
    /\ tree \in BuildTrees
    /\ \E contents \in [MarkdownPaths(tree) -> Documents] : site = EnterBuild(contents)
    /\ fm = IdleFrontmatter
    /\ IdleProcesses
    /\ FILE_CACHE = CacheNone
    /\ walks = 0
    /\ ncalls = 0
    /\ call = NoCall("link", S_index, None)
    /\ stream = IdleStream
    /\ pos = 0
    /\ rs = IdleRenderer

\* build() up to its second loop: the output directories, the templates, the
\* first walk and the naming-conflict check
BuildStart ==
    /\ ~site.idle
    /\ site.phase = "start"
    /\ site' = IF NamingConflict(tree)
               THEN [site EXCEPT !.phase = "done", !.result = "err",
                                 !.error = "Naming conflict detected"]
               ELSE [site EXCEPT !.phase = "walk", !.i = 1]
    /\ UNCHANGED fm
    /\ UNCHANGED procVars
    /\ UNCHANGED pathVars
    /\ UNCHANGED mdVars

\* one iteration of the second loop of build(), and the return that follows
\* the last one; tera_ok is whether the template collaborator renders
BuildEntry ==
    /\ ~site.idle
    /\ site.phase = "walk"
    /\ LET Advance(st) ==
               IF st.i >= Len(WalkYields(tree))
               THEN [st EXCEPT !.phase = "done", !.result = "ok"]
               ELSE [st EXCEPT !.i = @ + 1]
           Abort(path) ==
               [site EXCEPT !.phase = "done", !.result = "err",
                            !.error = "frontmatter", !.failed = path]
           \* the keys of the tera::Context the page is rendered from
           Inserted(context, path) ==
               [d \in DOMAIN context \cup {path} |->
                   IF d = path THEN {"title", "markdown", "frontmatter"} ELSE context[d]]
           Page(path, tera_ok) ==
               IF tera_ok
               THEN Advance([site EXCEPT !.rendered = @ \cup {path},
                                         !.pages = @ \cup {DocumentOutputPath(path)},
                                         !.writes = @ \cup
                                             {Write(path, DocumentOutputPath(path))},
                                         !.context = Inserted(@, path)])
               ELSE Advance(site)
           Render(path, parsed) ==
               IF ~parsed.ok THEN site' = Abort(path)
               ELSE \E tera_ok \in BOOLEAN : site' = Page(path, tera_ok)
           Listing(path, listed) ==
               IF ~listed.ok THEN site' = Abort(listed.failed)
               ELSE \E tera_ok \in BOOLEAN :
                       site' = IF tera_ok
                               THEN Advance([site EXCEPT
                                        !.listings =
                                            [d \in DOMAIN @ \cup {path} |->
                                                IF d = path THEN listed.items ELSE @[d]],
                                        !.writes = @ \cup
                                            {Write(path, ListingOutputPath(path))}])
                               ELSE Advance(site)
           Visit(entry) ==
               IF entry.is_file
               THEN IF IsHiddenName(FileName(entry.path)) THEN site' = Advance(site)
                    ELSE IF Extension(FileName(entry.path)) = <<"m", "d">>
                    THEN Render(entry.path,
                                   extract_frontmatter(site.contents[entry.path].content))
                    ELSE site' = Advance([site EXCEPT
                                     !.copies = @ \cup {StaticOutputPath(entry.path)},
                                     !.writes = @ \cup
                                         {Write(entry.path, StaticOutputPath(entry.path))}])
               ELSE IF entry.path = S_content \/ IsHiddenName(FileName(entry.path))
                    THEN site' = Advance(site)
                    ELSE Listing(entry.path, create_listing(tree, site.contents, entry.path))
       IN Visit(WalkYields(tree)[site.i])
    /\ UNCHANGED fm
    /\ UNCHANGED procVars
    /\ UNCHANGED pathVars
    /\ UNCHANGED mdVars

NextBuild == BuildStart \/ BuildEntry

SpecBuild == InitBuild /\ [][NextBuild]_vars

-----------------------------------------------------------------------------
(* The Backlink Indexer.  The repository declares only the Backlink record
   (markdown.rs:14-18); the pass that fills the graph is modelled from the
   specification's section 4.4. *)

B_twice == <<"[", "[", "n", "]", "]", " ", "[", "[", "n", ".", "m", "d", "]", "]">> \o NL
B_wiki == <<"[", "[">> \o S_wiki \o <<"a", "]", "]">> \o NL

LinkDocuments ==
    {Document(<<>>, S_dashes \o NL, S_title_a, S_date_b, S_dashes \o NL, body) :
        body \in {S_body, B_link, B_twice, B_wiki}}

BacklinkTrees == {TreeA, TreeB, TreeE}

\* the body of a document as the Reference Rewriter leaves it
RewrittenBody(t, content, doc) ==
    LET Rewritten(cache, parsed) ==
            process_wiki_parenthetical_links(process_paths_passes(cache, parsed.body, doc).out)
    IN Rewritten(CacheSome(WalkIndex(EmptyMap, t)), extract_frontmatter(content))

\* the targets of the links `[text](target)` of a rewritten body, in order;
\* an image `![alt](target)` is not a link
RECURSIVE LinkTargets(_, _)
LinkTargets(text, from) ==
    LET IsLink(i) ==
            /\ ParenMatchAt(text, i, <<"[">>, <<"]", "(">>).found
            /\ ~(i > 1 /\ text[i - 1] = "!")
        Rest(m) == <<m.g2>> \o LinkTargets(text, m.end)
        Leftmost(at) ==
            IF at = {} THEN <<>>
            ELSE Rest(ParenMatchAt(text, CHOOSE i \in at : \A k \in at : i <= k,
                                    <<"[">>, <<"]", "(">>))
    IN Leftmost({i \in from..Len(text) : IsLink(i)})

\* an internal target: neither external nor an asset
IsInternalTarget(target) ==
    ~IsPrefix(S_http, target) /\ ~IsPrefix(S_https, target) /\ ~IsPrefix(S_static, target)

\* the target without its query and extension, as document-path resolution
\* writes it
NormalizeTarget(target) ==
    LET Unrooted(path) == IF IsPrefix(<<"/">>, path) THEN Tail(path) ELSE path
        Cut(q) == IF q = 0 THEN target ELSE SubSeq(target, 1, q - 1)
    IN get_internal_link_path(Unrooted(Cut(FindFrom(target, 1, <<"?">>))))

\* recording a pair again under a key that already holds it
BacklinkInsert_Push(graph, key, pair) == PushEntry(graph, key, pair)

\* the set of unique (title, path) pairs under key, extended by pair
BacklinkInsert(graph, key, pair) ==
    IF key \in DOMAIN graph /\ \E i \in 1..Len(graph[key]) : graph[key][i] = pair
    THEN graph
    ELSE PushEntry(graph, key, pair)

RECURSIVE InsertAll(_, _, _)
InsertAll(graph, targets, pair) ==
    IF targets = <<>> THEN graph
    ELSE InsertAll(IF IsInternalTarget(targets[1])
                   THEN BacklinkInsert(graph, NormalizeTarget(targets[1]), pair)
                   ELSE graph,
                   Tail(targets), pair)

\* collect(tree): one pass over the documents in walk order
RECURSIVE collect(_, _, _, _)
collect(graph, t, contents, entries) ==
    LET Pair(doc, parsed) ==
            [title |-> parsed.frontmatter[K_title].text, path |-> CanonicalPath(doc)]
        Scanned(doc) ==
            InsertAll(graph, LinkTargets(RewrittenBody(t, contents[doc].content, doc), 1),
                      Pair(doc, extract_frontmatter(contents[doc].content)))
    IN IF entries = <<>> THEN graph
       ELSE collect(IF IsBuildDocument(entries[1]) THEN Scanned(entries[1].path) ELSE graph,
                    t, contents, Tail(entries))

\* a lookup in the graph: the pairs under key, none when there is no entry
BacklinksOf(graph, key) == IF key \in DOMAIN graph THEN graph[key] ELSE <<>>

InitBacklinks ==
    /\ tree \in BacklinkTrees
    /\ \E contents \in [BuildDocuments(tree) -> LinkDocuments] :
          site = [idle |-> FALSE, contents |-> contents, phase |-> "collect",
                  graph |-> EmptyMap]
    /\ fm = IdleFrontmatter
    /\ IdleProcesses
    /\ FILE_CACHE = CacheNone
    /\ walks = 0
    /\ ncalls = 0
    /\ call = NoCall("link", S_index, None)
    /\ stream = IdleStream
    /\ pos = 0
    /\ rs = IdleRenderer

CollectBacklinks ==
    /\ ~site.idle
    /\ site.phase = "collect"
    /\ site' = [site EXCEPT !.phase = "collected",
                            !.graph = collect(EmptyMap, tree, site.contents, tree)]
    /\ UNCHANGED fm
    /\ UNCHANGED procVars
    /\ UNCHANGED pathVars
    /\ UNCHANGED mdVars

NextBacklinks == CollectBacklinks

SpecBacklinks == InitBacklinks /\ [][NextBacklinks]_vars

-----------------------------------------------------------------------------
(* paths.rs under concurrent callers: each thread makes one call, of
   init_file_cache or of process_paths with one File Index lookup, and the
   steps of the threads interleave at the operations on the RwLock *)

\* threads
MaxThreads == 2

Operations == {"init_file_cache", "process_paths"}

Thread(op) ==
    [op |-> op, pc |-> IF op = "init_file_cache" THEN "write" ELSE "read",
     file_map |-> EmptyMap, i |-> 0, looked |-> FALSE, seen |-> CacheNone]

ThreadTrees == {TreeB, TreeE}

InitThreads ==
    /\ tree \in ThreadTrees
    /\ th \in [1..MaxThreads -> {Thread(op) : op \in Operations}]
    /\ lock = FreeLock
    /\ host = IdleHost
    /\ FILE_CACHE = CacheNone
    /\ walks = 0
    /\ ncalls = 0
    /\ call = NoCall("link", S_index, None)
    /\ stream = IdleStream
    /\ pos = 0
    /\ rs = IdleRenderer
    /\ fm = IdleFrontmatter
    /\ site = IdleBuild

\* RwLock::read returns when no writer holds the lock
CanRead(t) == lock.writer = 0
\* RwLock::write returns when nothing holds the lock
CanWrite(t) == lock.writer = 0 /\ lock.readers = {}

\* entering the write lock without looking at what is there
cache_is_none_Unchecked(cache) == TRUE

\* cache.is_none()
cache_is_none(cache) == ~cache.some

ThreadFrame ==
    /\ UNCHANGED <<tree, call, ncalls, host>>
    /\ UNCHANGED mdVars
    /\ UNCHANGED siteVars

\* process_paths: FILE_CACHE.read()
PathsRead(t) ==
    /\ th[t].pc = "read" /\ CanRead(t)
    /\ lock' = [lock EXCEPT !.readers = @ \cup {t}]
    /\ th' = [th EXCEPT ![t].pc = "is_none"]
    /\ UNCHANGED <<FILE_CACHE, walks>>
    /\ ThreadFrame

\* process_paths: .unwrap().is_none(), the guard dropped at the end of the test
PathsIsNone(t) ==
    /\ th[t].pc = "is_none"
    /\ lock' = [lock EXCEPT !.readers = @ \ {t}]
    /\ th' = [th EXCEPT ![t].pc = IF cache_is_none(FILE_CACHE) THEN "write" ELSE "lookup"]
    /\ UNCHANGED <<FILE_CACHE, walks>>
    /\ ThreadFrame

\* init_file_cache: FILE_CACHE.write()
InitWrite(t) ==
    /\ th[t].pc = "write" /\ CanWrite(t)
    /\ lock' = [lock EXCEPT !.writer = t]
    /\ th' = [th EXCEPT ![t].pc = "check"]
    /\ UNCHANGED <<FILE_CACHE, walks>>
    /\ ThreadFrame

\* init_file_cache: if cache.is_none() { let mut file_map = HashMap::new(); ...
InitIsNone(t) ==
    /\ th[t].pc = "check"
    /\ IF cache_is_none(FILE_CACHE)
       THEN /\ th' = [th EXCEPT ![t].pc = "walk", ![t].file_map = EmptyMap, ![t].i = 1]
            /\ walks' = walks + 1
       ELSE /\ th' = [th EXCEPT ![t].pc = "return"]
            /\ walks' = walks
    /\ UNCHANGED <<FILE_CACHE, lock>>
    /\ ThreadFrame

\* init_file_cache: one entry of the walk into the local map, and after the
\* last one *cache = Some(file_map)
InitWalk(t) ==
    /\ th[t].pc = "walk"
    /\ IF th[t].i <= Len(tree)
       THEN /\ th' = [th EXCEPT ![t].file_map = IndexEntry(@, tree[th[t].i]), ![t].i = @ + 1]
            /\ FILE_CACHE' = FILE_CACHE
       ELSE /\ th' = [th EXCEPT ![t].pc = "return"]
            /\ FILE_CACHE' = CacheSome(th[t].file_map)
    /\ UNCHANGED <<lock, walks>>
    /\ ThreadFrame

\* init_file_cache returns: the write guard is dropped
InitReturn(t) ==
    /\ th[t].pc = "return"
    /\ lock' = [lock EXCEPT !.writer = 0]
    /\ th' = [th EXCEPT ![t].pc = IF th[t].op = "process_paths" THEN "lookup" ELSE "done"]
    /\ UNCHANGED <<FILE_CACHE, walks>>
    /\ ThreadFrame

\* find_unique_image, find_unique_internal_link: let cache = FILE_CACHE.read()
LookupRead(t) ==
    /\ th[t].pc = "lookup" /\ CanRead(t)
    /\ lock' = [lock EXCEPT !.readers = @ \cup {t}]
    /\ th' = [th EXCEPT ![t].pc = "get"]
    /\ UNCHANGED <<FILE_CACHE, walks>>
    /\ ThreadFrame

\* the lookup in the map behind the guard, and the return that drops the guard
LookupGet(t) ==
    /\ th[t].pc = "get"
    /\ lock' = [lock EXCEPT !.readers = @ \ {t}]
    /\ th' = [th EXCEPT ![t].pc = "done", ![t].looked = TRUE, ![t].seen = FILE_CACHE]
    /\ UNCHANGED <<FILE_CACHE, walks>>
    /\ ThreadFrame

NextThreads ==
    \/ \E t \in DOMAIN th : PathsRead(t)
    \/ \E t \in DOMAIN th : PathsIsNone(t)
    \/ \E t \in DOMAIN th : InitWrite(t)
    \/ \E t \in DOMAIN th : InitIsNone(t)
    \/ \E t \in DOMAIN th : InitWalk(t)
    \/ \E t \in DOMAIN th : InitReturn(t)
    \/ \E t \in DOMAIN th : LookupRead(t)
    \/ \E t \in DOMAIN th : LookupGet(t)

SpecThreads == InitThreads /\ [][NextThreads]_vars

-----------------------------------------------------------------------------
(* main.rs, serve.rs: the commands, run one after the other in one working
   directory. host.dist is the dist directory: whether it exists and the
   outcome of the build() that cleared it last ("running" while in progress). *)

MaxCommands == 3

Commands == {"Build", "Serve", "RebuildAndServe"}

ServeTrees == {TreeB, TreeF}
ServeDocuments == {D_good, D_unclosed}

NoDist == [exists |-> FALSE, build |-> "none"]

InitServe ==
    /\ tree \in ServeTrees
    /\ host = [idle |-> FALSE, pc |-> "shell", cmd |-> "none", ncmds |-> 0, dist |-> NoDist]
    /\ site = IdleBuild
    /\ lock = FreeLock
    /\ th = NoThreads
    /\ fm = IdleFrontmatter
    /\ FILE_CACHE = CacheNone
    /\ walks = 0
    /\ ncalls = 0
    /\ call = NoCall("link", S_index, None)
    /\ stream = IdleStream
    /\ pos = 0
    /\ rs = IdleRenderer

\* a command is given once the one before it has returned or its server has
\* been stopped
CanCommand == ~host.idle /\ host.pc \in {"shell", "serving"} /\ host.ncmds < MaxCommands

\* clear_directory_safely(dist) at the head of build(): dist is removed if it
\* exists and created empty
clear_directory_safely(dist) == [exists |-> TRUE, build |-> "running"]

\* the call of build::build() by command c, with the documents as they are then
CallBuild(c) ==
    /\ host' = [host EXCEPT !.pc = "build", !.cmd = c, !.ncmds = @ + 1,
                            !.dist = clear_directory_safely(@)]
    /\ \E contents \in [MarkdownPaths(tree) -> ServeDocuments] : site' = EnterBuild(contents)

ServeFrame ==
    /\ UNCHANGED <<lock, th>>
    /\ UNCHANGED fm
    /\ UNCHANGED pathVars
    /\ UNCHANGED mdVars

\* Commands::Build => build::build()?
CommandBuild ==
    /\ CanCommand
    /\ CallBuild("Build")
    /\ ServeFrame

\* Commands::Serve => serve::serve(): build() only if dist does not exist
CommandServe ==
    /\ CanCommand
    /\ IF ~host.dist.exists
       THEN CallBuild("Serve")
       ELSE /\ host' = [host EXCEPT !.pc = "serving", !.cmd = "Serve", !.ncmds = @ + 1]
            /\ UNCHANGED site
    /\ ServeFrame

\* Commands::RebuildAndServe => { build::build()?; serve::serve().await?; }
CommandRebuildAndServe ==
    /\ CanCommand
    /\ CallBuild("RebuildAndServe")
    /\ ServeFrame

\* build() returns to its caller: main() for Build (the process ends), main()
\* for RebuildAndServe (`?` ends the process on Err, serve() finds dist and
\* serves it on Ok), serve() for Serve (unwrap() panics on Err, warp serves
\* dist on Ok)
BuildReturn ==
    /\ ~host.idle
    /\ host.pc = "build"
    /\ ~site.idle /\ site.phase = "done"
    /\ host' = [host EXCEPT
                   !.dist = [exists |-> TRUE, build |-> site.result],
                   !.pc = IF host.cmd # "Build" /\ site.result = "ok"
                          THEN "serving" ELSE "shell"]
    /\ site' = IdleBuild
    /\ ServeFrame

NextServe ==
    \/ CommandBuild
    \/ CommandServe
    \/ CommandRebuildAndServe
    \/ BuildStart
    \/ BuildEntry
    \/ BuildReturn

SpecServe == InitServe /\ [][NextServe]_vars

-----------------------------------------------------------------------------
(* C15, C16: frontmatter extraction *)

\* a delimiter line: three or more dashes, then only whitespace, up to and
\* including the end of the line
IsDelimiterLine(line) ==
    LET Dashes(l) == Len(l) >= 3 /\ \A i \in 1..Len(l) : l[i] = "-"
    IN IsSuffix(NL, line) /\ Dashes(TrimEnd(line))

HasOpeningDelimiter == IsDelimiterLine(fm.open)
HasClosingDelimiter == IsDelimiterLine(fm.close)
TitleIsString == fm.title = S_title_a
DateIsString == fm.date = S_date_b

\* C15: extract_frontmatter returns an error for every document that lacks
\* the opening delimiter, lacks the closing delimiter, lacks title or date, or
\* has a title or date that is not a string; it returns Ok only when both keys
\* are present as strings.
C15_MalformedIsError ==
    fm.called =>
        /\ (~HasOpeningDelimiter \/ ~HasClosingDelimiter \/ ~TitleIsString \/ ~DateIsString)
               => ~fm.result.ok
        /\ fm.result.ok =>
               /\ K_title \in DOMAIN fm.result.frontmatter
               /\ K_date \in DOMAIN fm.result.frontmatter
               /\ fm.result.frontmatter[K_title].type = "string"
               /\ fm.result.frontmatter[K_date].type = "string"

\* C16: for a document whose frontmatter block is opened and closed by lines
\* of three or more dashes and holds string title and date,
\* extract_frontmatter succeeds, the body is exactly the text after the
\* closing delimiter line, and the parsed frontmatter is title and date only.
C16_Case ==
    fm.called /\ HasOpeningDelimiter /\ HasClosingDelimiter /\ TitleIsString /\ DateIsString

C16_WellFormedBody ==
    C16_Case =>
        /\ fm.result.ok
        /\ fm.result.body = fm.body
        /\ DOMAIN fm.result.frontmatter = {K_title, K_date}
        /\ fm.result.frontmatter[K_title].text = <<"a">>
        /\ fm.result.frontmatter[K_date].text = <<"b">>

-----------------------------------------------------------------------------
(* C17: malformed frontmatter aborts the build *)

WellFormedDocument(d) ==
    /\ IsDelimiterLine(d.open)
    /\ IsDelimiterLine(d.close)
    /\ d.title = S_title_a
    /\ d.date = S_date_b

WalkIndexOf(path) == CHOOSE i \in 1..Len(tree) : tree[i].path = path

\* the non-hidden documents of the tree whose frontmatter is malformed
MalformedDocuments ==
    {doc \in BuildDocuments(tree) : ~WellFormedDocument(site.contents[doc])}

\* C17: if a non-hidden document has malformed frontmatter, build() returns
\* an error, never Ok, and no document at or after the offending one in walk
\* order is rendered.
C17_MalformedAbortsBuild ==
    ~site.idle =>
        \A doc \in MalformedDocuments :
            /\ site.phase = "done" => site.result = "err"
            /\ \A page \in site.rendered : WalkIndexOf(page) < WalkIndexOf(doc)

-----------------------------------------------------------------------------
(* C18: hidden entries *)

\* a path with a component, below the content root, whose name begins with `.`
IsHiddenPath(path) ==
    LET Hidden(cs) == \E i \in 1..Len(cs) : IsHiddenName(cs[i])
    IN Hidden(Components(ContentRelative(path)))

HiddenFiles ==
    {tree[i].path : i \in {k \in 1..Len(tree) : tree[k].is_file /\ IsHiddenPath(tree[k].path)}}

C18_IndexExcludesHidden ==
    FILE_CACHE.some =>
        \A k \in DOMAIN FILE_CACHE.file_map :
            \A i \in 1..Len(FILE_CACHE.file_map[k]) : ~IsHiddenPath(FILE_CACHE.file_map[k][i])

C18_TargetNotHidden ==
    (call.done /\ call.kind \in {"embed", "link"} /\ IsBare(call.ref)) =>
        \A h \in HiddenFiles :
            /\ call.kind = "embed" =>
                   call.embeds # ExpectImage(call, S_static \o sanitize_filename(ContentRelative(h)))
            /\ (call.kind = "link" /\ IsSuffix(S_md, h)) =>
                   call.links # ExpectLink(call, ExpectedDocumentUrl(h))

C18_BuildIgnoresHidden ==
    ~site.idle =>
        /\ site.rendered \cap HiddenFiles = {}
        /\ \A h \in HiddenFiles : StaticOutputPath(h) \notin site.copies
        /\ \A d \in DOMAIN site.listings :
               \A i \in 1..Len(site.listings[d]) : ~IsHiddenPath(site.listings[d][i].path)
        /\ site.failed \notin HiddenFiles

\* C18: no file whose name begins with `.`, and no file beneath a directory
\* whose name begins with `.`, is inserted into the File Index, chosen as the
\* target of a resolved reference, rendered, copied to the output, included
\* in a directory listing, or the cause of a failed build.
C18_HiddenExcluded ==
    /\ C18_IndexExcludesHidden
    /\ C18_TargetNotHidden
    /\ C18_BuildIgnoresHidden

-----------------------------------------------------------------------------
(* C19: the contents of the File Index *)

\* a document's name without its `.md`
StemOf(name) == SubSeq(name, 1, Len(name) - Len(S_md))

Indexed(key, path) ==
    /\ key \in DOMAIN FILE_CACHE.file_map
    /\ \E j \in 1..Len(FILE_CACHE.file_map[key]) : FILE_CACHE.file_map[key][j] = path

FilesOf(t) == {t[i].path : i \in {k \in 1..Len(t) : t[k].is_file}}

\* C19: once the index is built, every file of the tree is listed under its
\* file name, and under its stem too when it is a `.md` file; every path
\* listed under a key is a file of the tree with that name, or a `.md` file
\* with that stem; no key has an empty list.
C19_IndexContents ==
    FILE_CACHE.some =>
        /\ \A p \in FilesOf(tree) :
               /\ Indexed(FileName(p), p)
               /\ IsSuffix(S_md, FileName(p)) => Indexed(StemOf(FileName(p)), p)
        /\ \A k \in DOMAIN FILE_CACHE.file_map :
               /\ FILE_CACHE.file_map[k] # <<>>
               /\ \A j \in 1..Len(FILE_CACHE.file_map[k]) :
                      LET Keyed(p) ==
                              /\ p \in FilesOf(tree)
                              /\ \/ FileName(p) = k
                                 \/ IsSuffix(S_md, FileName(p)) /\ StemOf(FileName(p)) = k
                      IN Keyed(FILE_CACHE.file_map[k][j])

C19_Witness ==
    /\ FILE_CACHE.some
    /\ tree = TreeD
    /\ Len(FILE_CACHE.file_map[N_n]) = 3
    /\ Len(FILE_CACHE.file_map[N_p_png]) = 1

-----------------------------------------------------------------------------
(* C20: the File Index is built once *)

\* C20: once the first init_file_cache has completed, every later step
\* (init_file_cache, process_paths, a change of the content tree) performs no
\* tree walk and leaves the index exactly as it was.
C20_InitIdempotent ==
    [][FILE_CACHE.some => (FILE_CACHE' = FILE_CACHE /\ walks' = walks)]_vars

\* process_paths has returned for a document that the index, built from an
\* earlier tree, does not hold
C20_Witness ==
    /\ FILE_CACHE.some
    /\ walks = 1
    /\ call.done
    /\ ~Indexed(FileName(call.doc), call.doc)
    /\ FILE_CACHE.file_map # WalkIndex(EmptyMap, tree)

-----------------------------------------------------------------------------
(* C21: headings and their table-of-contents entries *)

\* the text a rendered heading shows: that of its text and inline code events
RECURSIVE InnerText(_)
InnerText(inner) ==
    IF inner = <<>> THEN <<>>
    ELSE (IF inner[1].type \in {"Text", "Code"} THEN inner[1].text ELSE <<>>)
             \o InnerText(Tail(inner))

\* lower-cased, spaces replaced with `-`, everything but alphanumerics and `-`
\* removed
SlugOfTitle(title) == KeepSlugChars(ReplaceChar(to_lowercase(title), " ", <<"-">>))

HeadingElements == SelectSeq(rs.events, LAMBDA e : e.type = "Html" /\ e.tag = "Heading")

\* C21: the i-th entry of the table of contents and the i-th emitted heading
\* element have the same level (1..6) and the same id; the entry's title is
\* the heading's rendered inner text and its id is the slug of that title.
C21_HeadingAnchors ==
    rs # IdleRenderer =>
        /\ Len(HeadingElements) = Len(rs.toc)
        /\ \A i \in 1..Len(rs.toc) :
               /\ rs.toc[i].level \in 1..6
               /\ HeadingElements[i].level = rs.toc[i].level
               /\ HeadingElements[i].id = rs.toc[i].id
               /\ rs.toc[i].title = InnerText(HeadingElements[i].inner)
               /\ rs.toc[i].id = SlugOfTitle(rs.toc[i].title)

-----------------------------------------------------------------------------
(* C22: the order of the table of contents *)

IsHeadingStart(e) == e.type = "Start" /\ e.tag = "Heading"
IsHeadingEnd(e) == e.type = "End" /\ e.tag = "Heading"

\* the events the loop has consumed
Consumed == SubSeq(stream, 1, pos - 1)

\* C22: the table of contents has exactly one entry per heading read so far,
\* in the order of the headings whatever their levels; entries of headings
\* with the same text have the same id.
C22_TocDocumentOrder ==
    rs # IdleRenderer =>
        /\ Len(rs.toc) = Len(SelectSeq(Consumed, IsHeadingEnd))
        /\ \A i \in 1..Len(rs.toc) :
               rs.toc[i].level = SelectSeq(Consumed, IsHeadingStart)[i].level
        /\ \A i, j \in 1..Len(rs.toc) :
               rs.toc[i].title = rs.toc[j].title => rs.toc[i].id = rs.toc[j].id

C22_Witness ==
    /\ rs # IdleRenderer
    /\ rs.status = "done"
    /\ Len(rs.toc) = 2
    /\ rs.toc[1].level = 2
    /\ rs.toc[2].level = 1
    /\ rs.toc[1].id = rs.toc[2].id

-----------------------------------------------------------------------------
(* C23: what the event loop emits *)

HtmlOf(tag) == [type |-> "Html", tag |-> tag]

\* the events the claim lets the loop emit for the events evs, read in the
\* state mode ("normal", or the tag of the construct it is inside)
RECURSIVE Emitted(_, _)
Emitted(evs, mode) ==
    IF evs = <<>> THEN <<>>
    ELSE IF mode = "normal"
         THEN IF evs[1].type = "Start" /\ evs[1].tag \in {"Heading", "CodeBlock"}
              THEN Emitted(Tail(evs), evs[1].tag)
              ELSE <<evs[1]>> \o Emitted(Tail(evs), "normal")
         ELSE IF evs[1].type = "End" /\ evs[1].tag = mode
              THEN <<HtmlOf(mode)>> \o Emitted(Tail(evs), "normal")
              ELSE Emitted(Tail(evs), mode)

\* an emitted event, a literal HTML event reduced to the construct it stands for
ShapeOf(e) == IF e.type = "Html" THEN HtmlOf(e.tag) ELSE e

ConstructEnded ==
    /\ pos > 1
    /\ stream[pos - 1].type = "End"
    /\ stream[pos - 1].tag \in {"Heading", "CodeBlock"}

\* C23: the events outside headings and code blocks are emitted unchanged and
\* in order, each heading and code block is replaced by one literal HTML
\* event where it ended, and once a construct has ended the renderer holds no
\* heading buffer and is not in a code block.
C23_PassThrough ==
    rs # IdleRenderer =>
        /\ [i \in 1..Len(rs.events) |-> ShapeOf(rs.events[i])] = Emitted(Consumed, "normal")
        /\ ConstructEnded =>
               /\ rs.status # "panicked"
               /\ ~rs.in_code_block
               /\ rs.current_heading = NoHeading

-----------------------------------------------------------------------------
(* C24: backlink symmetry *)

\* document a's rewritten body holds a link whose target is document b's
\* canonical path
LinksTo(a, b) ==
    FindFrom(RewrittenBody(tree, site.contents[a].content, a), 1,
             <<"]", "(">> \o CanonicalPath(b) \o <<")">>) > 0

Occurrences(pairs, pair) == Cardinality({i \in 1..Len(pairs) : pairs[i] = pair})

\* C24: after the backlink pass, if A's rewritten body holds a link to B's
\* canonical path, B's entry holds (A.title, A.canonical_path) exactly once;
\* a document nothing links to has no pairs on lookup.
C24_BacklinkSymmetry ==
    (~site.idle /\ site.phase = "collected") =>
        \A b \in BuildDocuments(tree) :
            /\ \A a \in BuildDocuments(tree) :
                   LinksTo(a, b) =>
                       Occurrences(BacklinksOf(site.graph, CanonicalPath(b)),
                                   [title |-> <<"a">>, path |-> CanonicalPath(a)]) = 1
            /\ (\A a \in BuildDocuments(tree) : ~LinksTo(a, b)) =>
                   BacklinksOf(site.graph, CanonicalPath(b)) = <<>>

\* a document that links twice to an earlier one, and a document nothing
\* links to
C24_Witness ==
    /\ ~site.idle
    /\ site.phase = "collected"
    /\ tree = TreeA
    /\ site.contents[InContent(Rel(<<N_a, N_b, N_m_md>>))].body = B_twice
    /\ Len(BacklinksOf(site.graph, <<"/", "a", "/", "n">>)) >= 1
    /\ BacklinksOf(site.graph, <<"/">>) = <<>>

-----------------------------------------------------------------------------
(* C25: backlinks are known when a document is rendered *)

InBuild == ~site.idle /\ site.phase \in {"start", "walk", "done"}

\* C25: a document is rendered with its backlinks: when document a links to
\* document b, the context b's page is rendered from holds b's backlinks,
\* also when a comes after b in the walk.
C25_BacklinksBeforeRender ==
    InBuild =>
        \A b \in site.rendered :
            \A a \in BuildDocuments(tree) :
                LinksTo(a, b) => "backlinks" \in site.context[b]

-----------------------------------------------------------------------------
(* C26: concurrent callers of the File Index *)

FullIndex == CacheSome(WalkIndex(EmptyMap, tree))

\* a thread that has not returned can take a step
CanStep(t) ==
    \/ th[t].pc \in {"is_none", "check", "walk", "return", "get"}
    \/ th[t].pc \in {"read", "lookup"} /\ CanRead(t)
    \/ th[t].pc = "write" /\ CanWrite(t)

C26_State ==
    /\ walks <= 1
    /\ FILE_CACHE \in {CacheNone, FullIndex}
    /\ \A t \in DOMAIN th : th[t].looked => th[t].seen = FullIndex
    /\ (\E t \in DOMAIN th : th[t].pc # "done") => \E t \in DOMAIN th : CanStep(t)

\* C26: under every interleaving the tree is walked at most once, the index
\* changes only from absent to fully built, in one step, no lookup sees a
\* partly filled index, and while a caller has not returned some caller can
\* proceed.
C26_ConcurrentInit ==
    /\ []C26_State
    /\ [][FILE_CACHE' # FILE_CACHE => (FILE_CACHE = CacheNone /\ FILE_CACHE' = FullIndex)]_vars

\* two process_paths callers both found the index absent: one walks under the
\* write lock while the other waits for it
C26_Witness ==
    /\ th # NoThreads
    /\ th[1].op = "process_paths" /\ th[1].pc = "walk" /\ th[1].i = 3
    /\ th[2].op = "process_paths" /\ th[2].pc = "write"

-----------------------------------------------------------------------------
(* C27 *)

\* C27: build() never writes two distinct content entries to the same output
\* file: distinct assets are copied to distinct files under dist/static, and no
\* page, listing or copied asset shares its output path with another entry
C27_DistinctOutputs ==
    InBuild =>
        \A w1, w2 \in site.writes : w1.to = w2.to => w1.from = w2.from

-----------------------------------------------------------------------------
(* C28 *)

\* the documents and directories of the content tree (hidden entries are not
\* part of it) that share a parent and a name
ConflictingPairs(t) ==
    {pair \in (1..Len(t)) \X (1..Len(t)) :
        /\ t[pair[1]].is_file /\ ~IsHiddenPath(t[pair[1]].path)
        /\ IsSuffix(<<".", "m", "d">>, t[pair[1]].path)
        /\ ~t[pair[2]].is_file /\ ~IsHiddenPath(t[pair[2]].path)
        /\ t[pair[1]].path = t[pair[2]].path \o <<".", "m", "d">>}

-----------------------------------------------------------------------------
(* C29 *)

\* the documents and the directories below the root of the content tree
TreeDocuments(t) ==
    {t[i].path : i \in {k \in 1..Len(t) :
        t[k].is_file /\ ~IsHiddenPath(t[k].path) /\ IsSuffix(<<".", "m", "d">>, t[k].path)}}

TreeDirectories(t) ==
    {t[i].path : i \in {k \in 1..Len(t) :
        ~t[k].is_file /\ ~IsHiddenPath(t[k].path) /\ t[k].path # S_content}}

\* C29: when build() returns Ok, the page of every document of the content tree
\* has been written to its output location and the listing of every directory
\* has been written; none is skipped on a path that ends in Ok
C29_OkMeansComplete ==
    (InBuild /\ site.phase = "done" /\ site.result = "ok") =>
        /\ \A doc \in TreeDocuments(tree) :
               Write(doc, DocumentOutputPath(doc)) \in site.writes
        /\ \A dir \in TreeDirectories(tree) :
               Write(dir, ListingOutputPath(dir)) \in site.writes

-----------------------------------------------------------------------------
(* C30 *)

\* C30: across any sequence of Build, Serve and RebuildAndServe commands the
\* server only serves a dist directory produced by a build that ran to
\* completion: never the dist a failed build left behind, and RebuildAndServe
\* never serves when its build failed
C30_ServesCompletedBuild ==
    (~host.idle /\ host.pc = "serving") => (host.dist.exists /\ host.dist.build = "ok")

====
